---- MODULE Spec2Model ----
(***************************************************************************)
(* StreamlitWorkflowOrchestrator (src/presentation/workflow_orchestrator)  *)
(* with the shared sandbox of DIContainer and ExecuteCodeUseCase.          *)
(*                                                                         *)
(* The four per-session dictionaries, the queue objects and the worker     *)
(* threads are the state.  process_user_message_async, cleanup_session and *)
(* get_job_status are modelled statement by statement, because nothing in  *)
(* the code makes them atomic; cancel_current_job only reads.              *)
(* A worker step runs from the return of one blocking call (file access,   *)
(* LLM, sandbox, sleep) to the start of the next one.                      *)
(*                                                                         *)
(* Spec      : every session; a facade handler runs to completion before    *)
(*             anything else happens; the workers run concurrently; every   *)
(*             run is given a data file.  What a handler returns is not     *)
(*             recorded.                                                    *)
(* SpecSteps : one session, its facade calls taken statement by statement,  *)
(*             one call at a time (one UI loop), workers concurrent.        *)
(* SpecConc  : one session, start and cleanup calls overlapping, every run   *)
(*             given a file that fails the validation.                      *)
(* SpecRun   : one run of one session, every use case call a step of its   *)
(*             own, with the history of its puts and calls; polled by one   *)
(*             UI loop.                                                     *)
(* SpecRunFair, SpecStepsFair : SpecRun and SpecSteps with weak fairness on *)
(*             the steps of every worker.                                   *)
(* SpecAdapter : ExecuteCodeUseCase's conversion of one raw sandbox result. *)
(* SpecFiles : the files on disk, FileLifecycleManager, path validation    *)
(*             and the upload handling of the UI.                           *)
(* SpecKernel : create, the receive loop and kill of                       *)
(*             JupyterSandboxRepository on one kernel.                     *)
(* SpecUI    : the render passes of the chat page that poll the runs.      *)
(* SpecArtifacts : _save_execution_artifacts applied to one DataThread.    *)
(***************************************************************************)
EXTENDS Integers, Sequences, FiniteSets, TLC

Sessions == {"s1", "s2"}
Callers == {"u1", "u2"}
FileKinds == {"none", "ok", "bad"}

\* datetime.now(): any two runs may be given the same timestamp
Timestamps == {"t0"}

MaxRuns == 2
MaxTasks == 1

CompletedCopies == 3
FileSteps == 5

VARIABLES session_jobs, session_queues, session_results,
          session_thread_counters, queues, threads, sandbox, call, last,
          fs, _temp_files_by_session, selected, kernel, session_state

vars == <<session_jobs, session_queues, session_results,
          session_thread_counters, queues, threads, sandbox, call, last,
          fs, _temp_files_by_session, selected, kernel, session_state>>

\* what lies outside the orchestrator: the regular files that exist, with
\* their content, the registry of FileLifecycleManager, the file each
\* session of the UI has selected, the kernel client of the sandbox, and the
\* st.session_state of the page of each session
env == <<fs, _temp_files_by_session, selected, kernel, session_state>>

\* the four dictionaries
orch == <<session_jobs, session_queues, session_results,
          session_thread_counters>>

-----------------------------------------------------------------------------
\* Values

NoJob == 0
NoQueue == 0
NoCounter == -1
NoSandbox == 0
NoDir == <<>>

\* error is the text of an error status, "-" when the text is not followed
Msg(st, run, step, total, dir) ==
    [status |-> st, run |-> run, step |-> step, total |-> total, dir |-> dir,
     error |-> "-"]

Plain(st) == Msg(st, 0, 0, 0, NoDir)

\* key missing from session_results / key present with value None
Absent == Plain("absent")
None == Plain("none")

IdleCall == [op |-> "none", pc |-> "idle", sid |-> "-", job |-> NoJob,
             th |-> 0, q0 |-> NoQueue, q1 |-> NoQueue, cnt0 |-> 0]

\* last is the value returned by the step just taken, NoReturn if none
NoReturn == [op |-> "none", sid |-> "-", val |-> Plain("none")]

Returned(op, s, val) == [op |-> op, sid |-> s, val |-> val]

-----------------------------------------------------------------------------
\* Helpers

\* threading.Thread.is_alive: from start() until the target returns
is_alive(w) == threads[w].pc # "dead"

Truthy(m) == m.status \notin {"absent", "none"}

\* a queue that hands out the newest message first
PutFront(qs, q, ms) == [qs EXCEPT ![q] = ms \o @]

\* queue.Queue.put of the messages ms, in order, on the queue object q
PutAll(qs, q, ms) == [qs EXCEPT ![q] = @ \o ms]

\* a queue object nothing refers to any more is freed
Collect(qs, sq, ths) ==
    [i \in DOMAIN qs |->
       IF \/ \E s \in Sessions : sq[s] = i
          \/ \E w \in DOMAIN ths : ths[w].pc # "dead" /\ ths[w].q = i
       THEN qs[i] ELSE <<>>]

step_offset(w) == IF threads[w].file = "none" THEN 0 ELSE 1

_build_output_dir(session_id, now) == <<"output", session_id, now>>

Progress(w, step, total) == Msg("progress", w, step, total, NoDir)

ErrorResult(w) == Msg("error", w, 0, 0, NoDir)

FinalResult(w) ==
    Msg("completed", w, threads[w].total, threads[w].total, threads[w].dir)

Copies(n, m) == [i \in 1..n |-> m]

Return(c, op, val) ==
    /\ call' = [call EXCEPT ![c] = IdleCall]
    /\ last' = Returned(op, call[c].sid, val)

Goto(c, pc) ==
    /\ call' = [call EXCEPT ![c].pc = pc]
    /\ last' = NoReturn

\* starts in progress count against the bound on worker threads
Budget == Len(threads) + Cardinality({c \in Callers : call[c].op = "start"})

-----------------------------------------------------------------------------
\* The files the program sees.  A path is the sequence of its components;
\* an absolute path starts with "/".  The process runs in cwd.

cwd == <<"/", "app">>

ALLOWED_DATA_FOLDERS == {<<".", "data">>, <<"data">>}

gettempdir == <<"/", "tmp">>

\* a dataset in the data folder, a file outside every allowed folder and an
\* upload in the temp root
Dataset == <<"/", "app", "data", "sales.csv">>

Passwd == <<"/", "etc", "passwd">>

Upload == <<"/", "tmp", "upload.csv">>

Files == {Dataset, Passwd, Upload}

Dirs == {<<"/">>, cwd, <<"/", "app", "data">>, <<"/", "etc">>, gettempdir}

\* two symbolic links in the data folder: one to the dataset, one out of it
Symlinks ==
    [l \in {<<"/", "app", "data", "inside.lnk">>,
            <<"/", "app", "data", "outside.lnk">>} |->
       IF l = <<"/", "app", "data", "inside.lnk">> THEN Dataset ELSE Passwd]

\* before any upload: the dataset and the outside file, as created
InitialFiles == [p \in {Dataset, Passwd} |-> "original"]

\* SessionStateManager: selected_file_path and the is_temporary metadata
NoSelection == [path |-> <<>>, is_temporary |-> FALSE]

\* "." is dropped and ".." removes the component before it (never the root)
RECURSIVE normpath(_, _)
normpath(acc, rest) ==
    IF rest = <<>> THEN acc
    ELSE LET h == Head(rest)
         IN normpath(IF h = "." THEN acc
                     ELSE IF h = ".."
                          THEN (IF Len(acc) > 1
                                THEN SubSeq(acc, 1, Len(acc) - 1) ELSE acc)
                          ELSE Append(acc, h),
                     Tail(rest))

absolute(p) == IF p # <<>> /\ Head(p) = "/" THEN p ELSE cwd \o p

\* Path.is_symlink: the path itself names a link
is_symlink(p) == normpath(<<>>, absolute(p)) \in DOMAIN Symlinks

\* Path.resolve: absolute, normalised, links followed
resolve(p) ==
    LET n == normpath(<<>>, absolute(p))
    IN IF n \in DOMAIN Symlinks THEN Symlinks[n] ELSE n

is_file(files, p) == p \in DOMAIN files

exists(files, p) == is_file(files, p) \/ p \in Dirs

is_relative_to(p, base) ==
    Len(base) <= Len(p) /\ SubSeq(p, 1, Len(base)) = base

is_tracked_file(registry, file_path) ==
    \E s \in DOMAIN registry : resolve(file_path) \in registry[s]

validate_file_path(files, registry, file_path) ==
    LET real_path == resolve(file_path)
    IN /\ ~is_symlink(file_path)
       /\ exists(files, real_path)
       /\ \/ \E allowed_folder \in ALLOWED_DATA_FOLDERS :
                is_relative_to(real_path, resolve(allowed_folder))
          \/ is_tracked_file(registry, real_path)

\* the re-validation at the start of _run_analysis_job
revalidate(files, registry, file_path, is_temporary_file) ==
    LET real_path == resolve(file_path)
        path_exists == exists(files, real_path)
        allowed_path ==
            \/ validate_file_path(files, registry, real_path)
            \/ is_temporary_file /\ is_relative_to(real_path, resolve(gettempdir))
    IN path_exists /\ allowed_path

\* no kernel client: iopub is the channel, todo what the kernel has yet to
\* publish, count the requests sent, msg_id and collected the locals of the
\* execute in progress; creating while create() runs, init what the
\* initialization code did in the kernel ("-" before it was sent); the four
\* fields of the repository, whether its temp directory is on disk, and the
\* number of calls of kill() made
NoKernel ==
    [pc |-> "none", iopub |-> <<>>, todo |-> <<>>, count |-> 0,
     msg_id |-> 0, collected |-> <<>>, creating |-> FALSE, init |-> "-",
     _sandbox_id |-> "None", _kernel_client |-> "None",
     _kernel_manager |-> "None", _temp_dir |-> "None", on_disk |-> FALSE,
     kills |-> 0]

\* st.session_state of one page: job_running, and rerun, whether another
\* pass of main() has been scheduled (st.rerun()) and has not run yet
NoPage == [job_running |-> FALSE, rerun |-> FALSE]

Init ==
    /\ session_jobs = [s \in Sessions |-> NoJob]
    /\ session_queues = [s \in Sessions |-> NoQueue]
    /\ session_results = [s \in Sessions |-> Absent]
    /\ session_thread_counters = [s \in Sessions |-> NoCounter]
    /\ queues = <<>>
    /\ threads = <<>>
    /\ sandbox = [id |-> NoSandbox]
    /\ call = [c \in Callers |-> IdleCall]
    /\ last = NoReturn
    /\ fs = InitialFiles
    /\ _temp_files_by_session = <<>>
    /\ selected = [s \in Sessions |-> NoSelection]
    /\ kernel = NoKernel
    /\ session_state = [s \in Sessions |-> NoPage]

-----------------------------------------------------------------------------
\* process_user_message_async, one statement per step

\* current_job = self.session_jobs.get(session_id)
StartGetJob(c, s) ==
    /\ call[c].pc = "idle"
    /\ Budget < MaxRuns
    /\ call' = [call EXCEPT ![c] =
                  [op |-> "start", pc |-> "test", sid |-> s,
                   job |-> session_jobs[s], th |-> 0,
                   q0 |-> session_queues[s], q1 |-> NoQueue,
                   cnt0 |-> IF session_thread_counters[s] = NoCounter
                            THEN 0 ELSE session_thread_counters[s]]]
    /\ last' = NoReturn
    /\ UNCHANGED <<orch, queues, threads, sandbox>>
    /\ UNCHANGED env

\* the alive test placed after the queue was replaced
StartRejectLate(c) ==
    /\ call[c].op = "start" /\ call[c].pc = "test"
    /\ call[c].job # NoJob /\ is_alive(call[c].job)
    /\ session_queues' = [session_queues EXCEPT ![call[c].sid] = Len(queues) + 1]
    /\ queues' = Collect(Append(queues, <<>>), session_queues', threads)
    /\ Return(c, "start", Plain("ERROR"))
    /\ UNCHANGED <<session_jobs, session_results, session_thread_counters,
                   threads, sandbox>>
    /\ UNCHANGED env

\* if current_job and current_job.is_alive(): return "ERROR: ..."
StartReject(c) ==
    /\ call[c].op = "start" /\ call[c].pc = "test"
    /\ call[c].job # NoJob /\ is_alive(call[c].job)
    /\ Return(c, "start", Plain("ERROR"))
    /\ UNCHANGED <<orch, queues, threads, sandbox>>
    /\ UNCHANGED env

StartAccept(c) ==
    /\ call[c].op = "start" /\ call[c].pc = "test"
    /\ ~(call[c].job # NoJob /\ is_alive(call[c].job))
    /\ Goto(c, "queue")
    /\ UNCHANGED <<orch, queues, threads, sandbox>>
    /\ UNCHANGED env

\* a queue made only for a session that has none
StartKeepQueue(c) ==
    /\ call[c].op = "start" /\ call[c].pc = "queue"
    /\ session_queues' =
         [session_queues EXCEPT ![call[c].sid] =
            IF @ = NoQueue THEN Len(queues) + 1 ELSE @]
    /\ queues' = Collect(Append(queues, <<>>), session_queues', threads)
    /\ call' = [call EXCEPT ![c].pc = "result", ![c].q1 = Len(queues) + 1]
    /\ last' = NoReturn
    /\ UNCHANGED <<session_jobs, session_results, session_thread_counters,
                   threads, sandbox>>
    /\ UNCHANGED env

\* self.session_queues[session_id] = queue.Queue()
StartNewQueue(c) ==
    /\ call[c].op = "start" /\ call[c].pc = "queue"
    /\ session_queues' = [session_queues EXCEPT ![call[c].sid] = Len(queues) + 1]
    /\ queues' = Collect(Append(queues, <<>>), session_queues', threads)
    /\ call' = [call EXCEPT ![c].pc = "result", ![c].q1 = Len(queues) + 1]
    /\ last' = NoReturn
    /\ UNCHANGED <<session_jobs, session_results, session_thread_counters,
                   threads, sandbox>>
    /\ UNCHANGED env

\* self.session_results[session_id] = None
StartClearResult(c) ==
    /\ call[c].op = "start" /\ call[c].pc = "result"
    /\ session_results' = [session_results EXCEPT ![call[c].sid] = None]
    /\ Goto(c, "counter")
    /\ UNCHANGED <<session_jobs, session_queues, session_thread_counters,
                   queues, threads, sandbox>>
    /\ UNCHANGED env

\* the counter set to 1 by every start
StartResetCounter(c) ==
    /\ call[c].op = "start" /\ call[c].pc = "counter"
    /\ session_thread_counters' =
         [session_thread_counters EXCEPT ![call[c].sid] = 1]
    /\ Goto(c, "thread")
    /\ UNCHANGED <<session_jobs, session_queues, session_results,
                   queues, threads, sandbox>>
    /\ UNCHANGED env

\* if session_id not in self.session_thread_counters: ... = 0
\* self.session_thread_counters[session_id] += 1
StartBumpCounter(c) ==
    /\ call[c].op = "start" /\ call[c].pc = "counter"
    /\ session_thread_counters' =
         [session_thread_counters EXCEPT ![call[c].sid] =
            (IF @ = NoCounter THEN 0 ELSE @) + 1]
    /\ Goto(c, "thread")
    /\ UNCHANGED <<session_jobs, session_queues, session_results,
                   queues, threads, sandbox>>
    /\ UNCHANGED env

\* own is the queue object made by the start call that starts the thread
NewThread(s, f, own) ==
    [sid |-> s, pc |-> "start", own |-> own, q |-> NoQueue, tid |-> 0,
     file |-> f, n |-> 0, idx |-> 0, step |-> 0, total |-> 0, err |-> FALSE,
     dir |-> NoDir]

\* job_thread = threading.Thread(target=..., args=(..., file_path, ...));
\* job_thread.start()
StartThread(c, f) ==
    /\ call[c].op = "start" /\ call[c].pc = "thread"
    /\ threads' = Append(threads, NewThread(call[c].sid, f, call[c].q1))
    /\ call' = [call EXCEPT ![c].pc = "register", ![c].th = Len(threads) + 1]
    /\ last' = NoReturn
    /\ UNCHANGED <<orch, queues, sandbox>>
    /\ UNCHANGED env

\* the thread started and never registered
StartForgetJob(c) ==
    /\ call[c].op = "start" /\ call[c].pc = "register"
    /\ Return(c, "start", Plain("STARTED"))
    /\ UNCHANGED <<orch, queues, threads, sandbox>>
    /\ UNCHANGED env

\* self.session_jobs[session_id] = job_thread; return "STARTED"
StartRegister(c) ==
    /\ call[c].op = "start" /\ call[c].pc = "register"
    /\ session_jobs' = [session_jobs EXCEPT ![call[c].sid] = call[c].th]
    /\ Return(c, "start", Plain("STARTED"))
    /\ UNCHANGED <<session_queues, session_results, session_thread_counters,
                   queues, threads, sandbox>>
    /\ UNCHANGED env

-----------------------------------------------------------------------------
\* _run_analysis_job, the worker thread w

Running(w, pc) == w \in DOMAIN threads /\ threads[w].pc = pc

\* the thread has ended: only its session is remembered
Ended(w) == [NewThread(threads[w].sid, "none", NoQueue) EXCEPT !.pc = "dead"]

\* the finally clause uses session_id only
Finishing(w) ==
    [NewThread(threads[w].sid, "none", threads[w].own) EXCEPT
       !.pc = "finally", !.q = threads[w].q]

\* session_queue = self.session_queues.get(session_id)
\* thread_id = self.session_thread_counters.get(session_id, 1)
\* without a file: current_step = 1, total_steps = 3, put(progress)
W_Begin(w) ==
    /\ Running(w, "start")
    /\ session_queues[threads[w].sid] # NoQueue
    /\ LET s == threads[w].sid
           q == session_queues[s]
           cnt == session_thread_counters[s]
           t == [threads[w] EXCEPT !.q = q,
                                   !.tid = IF cnt = NoCounter THEN 1 ELSE cnt]
       IN IF threads[w].file = "none"
          THEN /\ queues' = PutAll(queues, q, <<Progress(w, 1, 3)>>)
               /\ threads' = [threads EXCEPT ![w] =
                     [t EXCEPT !.pc = "plan_call", !.step = 1, !.total = 3]]
          ELSE /\ queues' = queues
               /\ threads' = [threads EXCEPT ![w] = [t EXCEPT !.pc = "validate"]]
    /\ last' = NoReturn
    /\ UNCHANGED <<orch, sandbox, call>>
    /\ UNCHANGED env

\* if not session_queue: return     (before the try: no finally clause runs)
W_QueueGone(w) ==
    /\ Running(w, "start")
    /\ session_queues[threads[w].sid] = NoQueue
    /\ threads' = [threads EXCEPT ![w] = Ended(w)]
    /\ last' = NoReturn
    /\ UNCHANGED <<orch, queues, sandbox, call>>
    /\ UNCHANGED env

\* if not path_exists or not allowed_path:
\*     session_queue.put(error_result)
\*     self.session_results[session_id] = error_result; return
W_ValidateFail(w) ==
    /\ Running(w, "validate") /\ threads[w].file = "bad"
    /\ queues' = PutAll(queues, threads[w].q, <<ErrorResult(w)>>)
    /\ session_results' =
         [session_results EXCEPT ![threads[w].sid] = ErrorResult(w)]
    /\ threads' = [threads EXCEPT ![w] = Finishing(w)]
    /\ last' = NoReturn
    /\ UNCHANGED <<session_jobs, session_queues, session_thread_counters,
                   sandbox, call>>
    /\ UNCHANGED env

\* session_queue.put({"status": "progress", "step": 1, "total": 5})
W_ValidateOk(w) ==
    /\ Running(w, "validate") /\ threads[w].file = "ok"
    /\ queues' = PutAll(queues, threads[w].q, <<Progress(w, 1, FileSteps)>>)
    /\ threads' = [threads EXCEPT ![w].pc = "fileinfo"]
    /\ last' = NoReturn
    /\ UNCHANGED <<orch, sandbox, call>>
    /\ UNCHANGED env

\* the file was read: put(progress 2 of 5); current_step = 2 + 1,
\* total_steps = step_offset + 3, put(progress)
W_FileInfo(w) ==
    /\ Running(w, "fileinfo")
    /\ LET cur == 2 + 1
           tot == step_offset(w) + 3 IN
       /\ queues' = PutAll(queues, threads[w].q,
                       <<Progress(w, 2, FileSteps), Progress(w, cur, tot)>>)
       /\ threads' = [threads EXCEPT ![w].pc = "plan_call",
                                     ![w].step = cur, ![w].total = tot]
    /\ last' = NoReturn
    /\ UNCHANGED <<orch, sandbox, call>>
    /\ UNCHANGED env

\* plan_use_case.execute returned n tasks; an empty plan becomes one task;
\* total_steps = step_offset + task_count + 2; put(progress);
\* output_dir = self._build_output_dir(session_id);
\* first task: current_step += 1; put(progress)
W_PlanDone(w) ==
    /\ Running(w, "plan_call")
    /\ \E n \in 0..MaxTasks, now \in Timestamps :
         LET task_count == IF n = 0 THEN 1 ELSE n
             tot == step_offset(w) + task_count + 2
             cur == threads[w].step IN
         /\ queues' = PutAll(queues, threads[w].q,
                         <<Progress(w, cur, tot), Progress(w, cur + 1, tot)>>)
         /\ threads' = [threads EXCEPT
                          ![w].pc = "exec", ![w].n = task_count,
                          ![w].total = tot, ![w].step = cur + 1,
                          ![w].dir = _build_output_dir(threads[w].sid, now)]
    /\ last' = NoReturn
    /\ UNCHANGED <<orch, sandbox, call>>
    /\ UNCHANGED env

\* DIContainer.get_sandbox_repository: one cached repository for every caller.
\* ExecuteCodeUseCase.execute: create() when _sandbox_id is None, then
\* execute_code in that context.  A context is named after the run whose
\* execute call created it.
ExecuteCode(sb, w) ==
    [id |-> IF sb.id = NoSandbox THEN w ELSE sb.id]

\* code_use_case.execute and execute_use_case.execute returned, the DataThread
\* with or without an error; then the next task's progress, or after the last
\* task the report progress: current_step += 1; put(progress)
W_Exec(w) ==
    /\ Running(w, "exec")
    /\ sandbox' = ExecuteCode(sandbox, w)
    /\ queues' = PutAll(queues, threads[w].q,
                    <<Progress(w, threads[w].step + 1, threads[w].total)>>)
    /\ \E e \in BOOLEAN :
         threads' = [threads EXCEPT
                       ![w].idx = @ + 1,
                       ![w].err = @ \/ e,
                       ![w].step = @ + 1,
                       ![w].pc = IF threads[w].idx + 1 < threads[w].n
                                 THEN "exec" ELSE "report_call"]
    /\ last' = NoReturn
    /\ UNCHANGED <<orch, call>>
    /\ UNCHANGED env

\* the result stored in one slot shared by every session
W_FinalShared(w) ==
    /\ Running(w, "report_call")
    /\ queues' = PutAll(queues, threads[w].q,
                    Copies(CompletedCopies, FinalResult(w)))
    /\ session_results' = [s \in Sessions |-> FinalResult(w)]
    /\ threads' = [threads EXCEPT ![w] = Finishing(w)]
    /\ last' = NoReturn
    /\ UNCHANGED <<session_jobs, session_queues, session_thread_counters,
                   sandbox, call>>
    /\ UNCHANGED env

\* the report was produced:
\* for _ in range(3): session_queue.put(final_result)
\* self.session_results[session_id] = final_result
W_Final(w) ==
    /\ Running(w, "report_call")
    /\ queues' = PutAll(queues, threads[w].q,
                    Copies(CompletedCopies, FinalResult(w)))
    /\ session_results' =
         [session_results EXCEPT ![threads[w].sid] = FinalResult(w)]
    /\ threads' = [threads EXCEPT ![w] = Finishing(w)]
    /\ last' = NoReturn
    /\ UNCHANGED <<session_jobs, session_queues, session_thread_counters,
                   sandbox, call>>
    /\ UNCHANGED env

\* the calls that can raise: plan, code generation / sandbox, report
RaisingPcs == {"plan_call", "exec", "report_call"}

\* except Exception as e:
\*     session_queue.put(error_result)
\*     if session_id in self.session_results: ... = error_result
W_Except(w) ==
    /\ w \in DOMAIN threads /\ threads[w].pc \in RaisingPcs
    /\ queues' = PutAll(queues, threads[w].q, <<ErrorResult(w)>>)
    /\ session_results' =
         [session_results EXCEPT ![threads[w].sid] =
            IF @ # Absent THEN ErrorResult(w) ELSE @]
    /\ threads' = [threads EXCEPT ![w] = Finishing(w)]
    /\ last' = NoReturn
    /\ UNCHANGED <<session_jobs, session_queues, session_thread_counters,
                   sandbox, call>>
    /\ UNCHANGED env

\* the thread ends only once its job entry belongs to another thread
W_FinallyWaits(w) ==
    /\ Running(w, "finally")
    /\ session_jobs[threads[w].sid] # w
    /\ session_jobs' = [session_jobs EXCEPT ![threads[w].sid] = NoJob]
    /\ threads' = [threads EXCEPT ![w] = Ended(w)]
    /\ queues' = Collect(queues, session_queues, threads')
    /\ last' = NoReturn
    /\ UNCHANGED <<session_queues, session_results, session_thread_counters,
                   sandbox, call>>
    /\ UNCHANGED env

\* finally: time.sleep(0.1); if session_id in self.session_jobs: del ...
\* and the thread ends
W_Finally(w) ==
    /\ Running(w, "finally")
    /\ session_jobs' = [session_jobs EXCEPT ![threads[w].sid] = NoJob]
    /\ threads' = [threads EXCEPT ![w] = Ended(w)]
    /\ queues' = Collect(queues, session_queues, threads')
    /\ last' = NoReturn
    /\ UNCHANGED <<session_queues, session_results, session_thread_counters,
                   sandbox, call>>
    /\ UNCHANGED env

-----------------------------------------------------------------------------
\* get_job_status

\* the stored result never looked at
StatusWithoutResult(s) ==
    IF session_jobs[s] # NoJob /\ is_alive(session_jobs[s])
    THEN Plain("running")
    ELSE Plain("idle")

\* except queue.Empty: the job, then the stored result, then idle
StatusWhenEmpty(s) ==
    IF session_jobs[s] # NoJob /\ is_alive(session_jobs[s])
    THEN Plain("running")
    ELSE IF Truthy(session_results[s]) THEN session_results[s]
    ELSE Plain("idle")

\* what a poll that runs to completion returns
get_job_status(s) ==
    LET q == session_queues[s] IN
    IF q = NoQueue THEN Plain("idle")
    ELSE IF queues[q] # <<>> THEN Head(queues[q])
    ELSE StatusWhenEmpty(s)

\* msg = session_queue.get_nowait() removes the message it returns
Poll(s) ==
    /\ queues' = IF session_queues[s] # NoQueue /\ queues[session_queues[s]] # <<>>
                 THEN [queues EXCEPT ![session_queues[s]] = Tail(@)]
                 ELSE queues
    /\ UNCHANGED <<orch, threads, sandbox, call>>
    /\ UNCHANGED env

\* the job tested before the queue is read
PollGetJobFirst(c, s) ==
    /\ call[c].pc = "idle"
    /\ LET q == session_queues[s] IN
       IF q = NoQueue
       THEN /\ last' = Returned("poll", s, Plain("idle"))
            /\ UNCHANGED <<call, queues>>
       ELSE IF session_jobs[s] # NoJob /\ is_alive(session_jobs[s])
       THEN /\ last' = Returned("poll", s, Plain("running"))
            /\ UNCHANGED <<call, queues>>
       ELSE IF queues[q] # <<>>
       THEN /\ last' = Returned("poll", s, Head(queues[q]))
            /\ queues' = [queues EXCEPT ![q] = Tail(@)]
            /\ call' = call
       ELSE /\ call' = [call EXCEPT ![c] =
                          [IdleCall EXCEPT !.op = "poll", !.pc = "empty",
                                           !.sid = s]]
            /\ last' = NoReturn
            /\ queues' = queues
    /\ UNCHANGED <<orch, threads, sandbox>>
    /\ UNCHANGED env

\* the same statement by statement: session_queue = ...get(session_id);
\* if not session_queue: return idle; msg = session_queue.get_nowait()
PollGet(c, s) ==
    /\ call[c].pc = "idle"
    /\ LET q == session_queues[s] IN
       IF q = NoQueue
       THEN /\ last' = Returned("poll", s, Plain("idle"))
            /\ UNCHANGED <<call, queues>>
       ELSE IF queues[q] # <<>>
       THEN /\ last' = Returned("poll", s, Head(queues[q]))
            /\ queues' = [queues EXCEPT ![q] = Tail(@)]
            /\ call' = call
       ELSE /\ call' = [call EXCEPT ![c] =
                          [IdleCall EXCEPT !.op = "poll", !.pc = "empty",
                                           !.sid = s]]
            /\ last' = NoReturn
            /\ queues' = queues
    /\ UNCHANGED <<orch, threads, sandbox>>
    /\ UNCHANGED env

\* except queue.Empty: ...
PollEmpty(c) ==
    /\ call[c].op = "poll" /\ call[c].pc = "empty"
    /\ Return(c, "poll", StatusWhenEmpty(call[c].sid))
    /\ UNCHANGED <<orch, queues, threads, sandbox>>
    /\ UNCHANGED env

\* the job entry tested, not the thread
cancel_by_entry(s) ==
    IF session_jobs[s] # NoJob
    THEN Plain("cancel_refused") ELSE Plain("nothing_to_cancel")

\* cancel_current_job
cancel_current_job(s) ==
    IF session_jobs[s] # NoJob /\ is_alive(session_jobs[s])
    THEN Plain("cancel_refused") ELSE Plain("nothing_to_cancel")

Cancel(s) ==
    /\ UNCHANGED <<orch, queues, threads, sandbox, call>>
    /\ UNCHANGED env

-----------------------------------------------------------------------------
\* cleanup_session

\* current_job = self.session_jobs.get(session_id)
CleanupGetJob(c, s) ==
    /\ call[c].pc = "idle"
    /\ call' = [call EXCEPT ![c] =
                  [IdleCall EXCEPT !.op = "cleanup", !.pc = "check",
                                   !.sid = s, !.job = session_jobs[s]]]
    /\ last' = NoReturn
    /\ UNCHANGED <<orch, queues, threads, sandbox>>
    /\ UNCHANGED env

\* if current_job and current_job.is_alive(): current_job.join(timeout=1.0)
CleanupCheck(c) ==
    /\ call[c].op = "cleanup" /\ call[c].pc = "check"
    /\ Goto(c, IF call[c].job # NoJob /\ is_alive(call[c].job)
               THEN "join" ELSE "delete")
    /\ UNCHANGED <<orch, queues, threads, sandbox>>
    /\ UNCHANGED env

\* join returned; if current_job.is_alive(): return   (state is kept)
CleanupKeep(c) ==
    /\ call[c].op = "cleanup" /\ call[c].pc = "join"
    /\ is_alive(call[c].job)
    /\ Return(c, "cleanup", Plain("kept"))
    /\ UNCHANGED <<orch, queues, threads, sandbox>>
    /\ UNCHANGED env

CleanupJoined(c) ==
    /\ call[c].op = "cleanup" /\ call[c].pc = "join"
    /\ ~is_alive(call[c].job)
    /\ Goto(c, "delete")
    /\ UNCHANGED <<orch, queues, threads, sandbox>>
    /\ UNCHANGED env

\* the del statements without their membership tests: KeyError when the
\* job entry is missing
CleanupDeleteUnguarded(c) ==
    /\ call[c].op = "cleanup" /\ call[c].pc = "delete"
    /\ IF session_jobs[call[c].sid] = NoJob
       THEN /\ Return(c, "cleanup", Plain("KeyError"))
            /\ UNCHANGED <<orch, queues>>
       ELSE /\ session_jobs' = [session_jobs EXCEPT ![call[c].sid] = NoJob]
            /\ session_queues' = [session_queues EXCEPT ![call[c].sid] = NoQueue]
            /\ session_results' = [session_results EXCEPT ![call[c].sid] = Absent]
            /\ session_thread_counters' =
                 [session_thread_counters EXCEPT ![call[c].sid] = NoCounter]
            /\ queues' = Collect(queues, session_queues', threads)
            /\ Return(c, "cleanup", Plain("removed"))
    /\ UNCHANGED <<threads, sandbox>>
    /\ UNCHANGED env

\* the four del statements
CleanupDelete(c) ==
    /\ call[c].op = "cleanup" /\ call[c].pc = "delete"
    /\ session_jobs' = [session_jobs EXCEPT ![call[c].sid] = NoJob]
    /\ session_queues' = [session_queues EXCEPT ![call[c].sid] = NoQueue]
    /\ session_results' = [session_results EXCEPT ![call[c].sid] = Absent]
    /\ session_thread_counters' =
         [session_thread_counters EXCEPT ![call[c].sid] = NoCounter]
    /\ queues' = Collect(queues, session_queues', threads)
    /\ Return(c, "cleanup", Plain("removed"))
    /\ UNCHANGED <<threads, sandbox>>
    /\ UNCHANGED env

-----------------------------------------------------------------------------
\* The facade handlers run to completion, as one UI loop calls them

\* process_user_message_async when the job test fails: every statement
Start(s, f) ==
    /\ Len(threads) < MaxRuns
    /\ ~(session_jobs[s] # NoJob /\ is_alive(session_jobs[s]))
    /\ session_queues' = [session_queues EXCEPT ![s] = Len(queues) + 1]
    /\ queues' = Collect(Append(queues, <<>>), session_queues', threads)
    /\ session_results' = [session_results EXCEPT ![s] = None]
    /\ session_thread_counters' =
         [session_thread_counters EXCEPT ![s] =
            (IF @ = NoCounter THEN 0 ELSE @) + 1]
    /\ threads' = Append(threads, NewThread(s, f, Len(queues) + 1))
    /\ session_jobs' = [session_jobs EXCEPT ![s] = Len(threads) + 1]
    /\ UNCHANGED <<sandbox, call, last>>
    /\ UNCHANGED env

\* cleanup_session when there is no job or it has ended; when the job is
\* still alive after the join nothing is removed
Cleanup(s) ==
    /\ ~(session_jobs[s] # NoJob /\ is_alive(session_jobs[s]))
    /\ session_jobs' = [session_jobs EXCEPT ![s] = NoJob]
    /\ session_queues' = [session_queues EXCEPT ![s] = NoQueue]
    /\ session_results' = [session_results EXCEPT ![s] = Absent]
    /\ session_thread_counters' =
         [session_thread_counters EXCEPT ![s] = NoCounter]
    /\ queues' = Collect(queues, session_queues', threads)
    /\ UNCHANGED <<threads, sandbox, call, last>>
    /\ UNCHANGED env

-----------------------------------------------------------------------------
\* Specifications

\* no facade call is in progress
NoCall == \A c \in Callers : call[c].pc = "idle"

\* the session whose facade is followed statement by statement
Watched == {"s1"}

\* the inputs of the runs of Spec: a file that is there or not
DataFiles == {"ok", "bad"}

\* the input of overlapping starts: a file that is not there
RaceFiles == {"bad"}

CallStep(c) ==
    \/ StartReject(c) \/ StartAccept(c) \/ StartNewQueue(c)
    \/ StartClearResult(c) \/ StartBumpCounter(c) \/ StartRegister(c)
    \/ CleanupCheck(c) \/ CleanupKeep(c) \/ CleanupJoined(c)
    \/ CleanupDelete(c)

WorkerStep(w) ==
    \/ W_Begin(w) \/ W_ValidateFail(w) \/ W_ValidateOk(w) \/ W_FileInfo(w)
    \/ W_PlanDone(w) \/ W_Exec(w) \/ W_Final(w) \/ W_Except(w)
    \/ W_Finally(w)

Next ==
    \/ \E s \in Sessions, f \in DataFiles : Start(s, f)
    \/ \E s \in Sessions : (Poll(s) \/ Cancel(s)) /\ UNCHANGED last
    \/ \E s \in Sessions : Cleanup(s)
    \/ \E w \in 1..MaxRuns : WorkerStep(w)

Spec == Init /\ [][Next]_vars

NextSteps ==
    \/ \E c \in Callers, s \in Watched :
         NoCall /\ (StartGetJob(c, s) \/ CleanupGetJob(c, s))
    \/ \E c \in Callers, s \in Watched : NoCall /\ PollGet(c, s)
    \/ \E c \in Callers : PollEmpty(c)
    \/ \E s \in Watched :
         NoCall /\ Cancel(s)
                /\ last' = Returned("cancel", s, cancel_current_job(s))
    \/ \E c \in Callers : CallStep(c)
    \/ \E c \in Callers, f \in FileKinds : StartThread(c, f)
    \/ \E w \in 1..MaxRuns : WorkerStep(w)

SpecSteps == Init /\ [][NextSteps]_vars

\* every blocking call of a worker returns or raises, and the thread is
\* scheduled
SpecStepsFair == SpecSteps /\ \A w \in 1..MaxRuns : WF_vars(WorkerStep(w))

\* the steps of a run that was given one of RaceFiles
RaceStep(w) ==
    W_Begin(w) \/ W_QueueGone(w) \/ W_ValidateFail(w) \/ W_Finally(w)

NextConc ==
    \/ \E c \in Callers, s \in Watched :
         StartGetJob(c, s) \/ CleanupGetJob(c, s)
    \/ \E c \in Callers : CallStep(c)
    \/ \E c \in Callers, f \in RaceFiles : StartThread(c, f)
    \/ \E w \in 1..MaxRuns : RaceStep(w)

SpecConc == Init /\ [][NextConc]_vars

-----------------------------------------------------------------------------
\* _run_analysis_job call by call: every use case call is a step of its own,
\* and the run remembers what it has put on its queue (sent), the calls it
\* has made (calls), its task list (tasks) and its task_results (execs)

MaxPlan == 3

\* PlanTask(hypothesis=...): the task made from the request when the plan is
\* empty, and the i-th task of a plan
FallbackTask == [hypothesis |-> <<"message">>]

PlanTask(i) == [hypothesis |-> <<"plan", i>>]

\* a call of a use case: code is the task whose generated code is passed
UseCaseCall(fn, k, code) == [fn |-> fn, task |-> k, code |-> code]

\* what the worker steps below add to a thread
NoTrace ==
    [sent |-> <<>>, calls |-> <<>>, planned |-> 0, tasks |-> <<>>, code |-> 0,
     execs |-> <<>>, summary |-> FALSE, raised |-> "-", at |-> "-"]

\* session_queue.put(m) for each m of ms by the thread whose record is t
Send(t, ms) == [t EXCEPT !.sent = @ \o ms]

\* {"status": "error", "error": str(e)}
Failure(w, e) == [ErrorResult(w) EXCEPT !.error = e]

\* the blocking calls of the pipeline and what each of them can raise
CallPcs == {"plan_call", "code_call", "exec_call", "report_call"}

Raises(pc) ==
    IF pc = "exec_call" THEN {"TimeoutError", "RuntimeError"}
    ELSE {"LLMError"}

UseCaseAt(t) ==
    CASE t.pc = "plan_call" -> UseCaseCall("plan", 0, 0)
      [] t.pc = "code_call" -> UseCaseCall("code", t.idx, 0)
      [] t.pc = "exec_call" -> UseCaseCall("exec", t.idx, t.code)
      [] t.pc = "report_call" ->
           UseCaseCall(IF t.summary THEN "render" ELSE "report", 0, 0)

R_Begin(w) ==
    /\ Running(w, "start")
    /\ session_queues[threads[w].sid] # NoQueue
    /\ LET s == threads[w].sid
           q == session_queues[s]
           cnt == session_thread_counters[s]
           t == [threads[w] EXCEPT !.q = q,
                                   !.tid = IF cnt = NoCounter THEN 1 ELSE cnt]
                @@ NoTrace
       IN IF threads[w].file = "none"
          THEN /\ queues' = PutAll(queues, q, <<Progress(w, 1, 3)>>)
               /\ threads' = [threads EXCEPT ![w] =
                     Send([t EXCEPT !.pc = "plan_call", !.step = 1,
                                    !.total = 3],
                          <<Progress(w, 1, 3)>>)]
          ELSE /\ queues' = queues
               /\ threads' = [threads EXCEPT ![w] = [t EXCEPT !.pc = "validate"]]
    /\ last' = NoReturn
    /\ UNCHANGED <<orch, sandbox, call>>
    /\ UNCHANGED env

\* the error is reported and the run goes on to read the file
R_ValidateFailGoesOn(w) ==
    /\ Running(w, "validate") /\ threads[w].file = "bad"
    /\ queues' = PutAll(queues, threads[w].q, <<ErrorResult(w)>>)
    /\ session_results' =
         [session_results EXCEPT ![threads[w].sid] = ErrorResult(w)]
    /\ threads' = [threads EXCEPT ![w] =
                     Send([threads[w] EXCEPT !.pc = "fileinfo"],
                          <<ErrorResult(w)>>)]
    /\ last' = NoReturn
    /\ UNCHANGED <<session_jobs, session_queues, session_thread_counters,
                   sandbox, call>>
    /\ UNCHANGED env

\* if not path_exists or not allowed_path:
\*     session_queue.put(error_result)
\*     self.session_results[session_id] = error_result; return
R_ValidateFail(w) ==
    /\ Running(w, "validate") /\ threads[w].file = "bad"
    /\ queues' = PutAll(queues, threads[w].q, <<ErrorResult(w)>>)
    /\ session_results' =
         [session_results EXCEPT ![threads[w].sid] = ErrorResult(w)]
    /\ threads' = [threads EXCEPT ![w] =
                     Send([threads[w] EXCEPT !.pc = "finally"],
                          <<ErrorResult(w)>>)]
    /\ last' = NoReturn
    /\ UNCHANGED <<session_jobs, session_queues, session_thread_counters,
                   sandbox, call>>
    /\ UNCHANGED env

R_ValidateOk(w) ==
    /\ Running(w, "validate") /\ threads[w].file = "ok"
    /\ queues' = PutAll(queues, threads[w].q, <<Progress(w, 1, FileSteps)>>)
    /\ threads' = [threads EXCEPT ![w] =
                     Send([threads[w] EXCEPT !.pc = "fileinfo"],
                          <<Progress(w, 1, FileSteps)>>)]
    /\ last' = NoReturn
    /\ UNCHANGED <<orch, sandbox, call>>
    /\ UNCHANGED env

R_FileInfo(w) ==
    /\ Running(w, "fileinfo")
    /\ LET cur == 2 + 1
           tot == step_offset(w) + 3
           ms == <<Progress(w, 2, FileSteps), Progress(w, cur, tot)>> IN
       /\ queues' = PutAll(queues, threads[w].q, ms)
       /\ threads' = [threads EXCEPT ![w] =
                        Send([threads[w] EXCEPT !.pc = "plan_call",
                                                !.step = cur, !.total = tot],
                             ms)]
    /\ last' = NoReturn
    /\ UNCHANGED <<orch, sandbox, call>>
    /\ UNCHANGED env

\* an empty plan is kept as it is: no task, and the report comes next
R_PlanKeepsEmpty(w) ==
    /\ Running(w, "plan_call")
    /\ \E n \in 0..MaxPlan, now \in Timestamps :
         LET plan_tasks == [i \in 1..n |-> PlanTask(i)]
             tot == step_offset(w) + n + 2
             cur == threads[w].step
             ms == <<Progress(w, cur, tot), Progress(w, cur + 1, tot)>> IN
         /\ queues' = PutAll(queues, threads[w].q, ms)
         /\ threads' = [threads EXCEPT ![w] =
              Send([threads[w] EXCEPT
                      !.pc = IF n = 0 THEN "report_call" ELSE "code_call",
                      !.planned = n, !.tasks = plan_tasks, !.n = n,
                      !.idx = IF n = 0 THEN 0 ELSE 1,
                      !.total = tot, !.step = cur + 1,
                      !.dir = _build_output_dir(threads[w].sid, now),
                      !.calls = Append(@, UseCaseAt(threads[w]))],
                   ms)]
    /\ last' = NoReturn
    /\ UNCHANGED <<orch, sandbox, call>>
    /\ UNCHANGED env

\* plan_result = plan_use_case.execute(...) returned n tasks
\* if not plan_tasks: plan_tasks = [PlanTask(hypothesis=message, ...)]
\* task_count = len(plan_tasks); total_steps = step_offset + task_count + 2
\* put(progress); output_dir = ...; task_results = []
\* first task: current_step += 1; put(progress)
R_Plan(w) ==
    /\ Running(w, "plan_call")
    /\ \E n \in 0..MaxPlan, now \in Timestamps :
         LET plan_tasks == IF n = 0 THEN <<FallbackTask>>
                           ELSE [i \in 1..n |-> PlanTask(i)]
             task_count == Len(plan_tasks)
             tot == step_offset(w) + task_count + 2
             cur == threads[w].step
             ms == <<Progress(w, cur, tot), Progress(w, cur + 1, tot)>> IN
         /\ queues' = PutAll(queues, threads[w].q, ms)
         /\ threads' = [threads EXCEPT ![w] =
              Send([threads[w] EXCEPT
                      !.pc = "code_call", !.planned = n,
                      !.tasks = plan_tasks, !.n = task_count, !.idx = 1,
                      !.total = tot, !.step = cur + 1,
                      !.dir = _build_output_dir(threads[w].sid, now),
                      !.calls = Append(@, UseCaseAt(threads[w]))],
                   ms)]
    /\ last' = NoReturn
    /\ UNCHANGED <<orch, sandbox, call>>
    /\ UNCHANGED env

\* the code generated for the task before is kept when the call raises
R_CodeGenKeepsCode(w) ==
    /\ Running(w, "code_call")
    /\ \E raised \in BOOLEAN :
         threads' = [threads EXCEPT
                       ![w].pc = "exec_call",
                       ![w].code = IF raised THEN @ ELSE threads[w].idx,
                       ![w].calls = Append(@, UseCaseAt(threads[w]))]
    /\ last' = NoReturn
    /\ UNCHANGED <<orch, queues, sandbox, call>>
    /\ UNCHANGED env

\* code_result = code_use_case.execute(...) returned
\* enhanced_code = code_result.code or "" ...
R_CodeGen(w) ==
    /\ Running(w, "code_call")
    /\ threads' = [threads EXCEPT
                     ![w].pc = "exec_call",
                     ![w].code = threads[w].idx,
                     ![w].calls = Append(@, UseCaseAt(threads[w]))]
    /\ last' = NoReturn
    /\ UNCHANGED <<orch, queues, sandbox, call>>
    /\ UNCHANGED env

\* a DataThread with an error ends the run with an error status
R_ExecuteAborts(w) ==
    /\ Running(w, "exec_call")
    /\ sandbox' = ExecuteCode(sandbox, w)
    /\ \E e \in BOOLEAN :
         LET t == threads[w]
             more == t.idx < t.n
             ms == IF e THEN <<ErrorResult(w)>>
                   ELSE <<Progress(w, t.step + 1, t.total)>> IN
         /\ queues' = PutAll(queues, t.q, ms)
         /\ threads' = [threads EXCEPT ![w] =
              Send([t EXCEPT
                      !.calls = Append(@, UseCaseAt(t)),
                      !.execs = Append(@, [task |-> t.idx, error |-> e]),
                      !.err = @ \/ e,
                      !.idx = IF more /\ ~e THEN @ + 1 ELSE @,
                      !.step = @ + 1,
                      !.pc = IF e THEN "finally"
                             ELSE IF more THEN "code_call" ELSE "report_call"],
                   ms)]
    /\ last' = NoReturn
    /\ UNCHANGED <<orch, call>>
    /\ UNCHANGED env

\* execution_result = execute_use_case.execute(code=enhanced_code, ...)
\* returned a DataThread, with an error (e) or without
\* task_results.append(execution_result)
\* if execution_result.error or ...: encountered_error = True
\* next task: current_step += 1; put(progress)
\* after the last task:
\*     if encountered_error and file_path:
\*         built_in_summary = self._run_builtin_analysis(...)  (or None)
\*     current_step += 1; put(progress)
R_Execute(w) ==
    /\ Running(w, "exec_call")
    /\ sandbox' = ExecuteCode(sandbox, w)
    /\ \E e \in BOOLEAN, b \in BOOLEAN :
         LET t == threads[w]
             more == t.idx < t.n
             err == t.err \/ e
             builtin == ~more /\ err /\ t.file # "none"
             ms == <<Progress(w, t.step + 1, t.total)>> IN
         /\ b => builtin
         /\ queues' = PutAll(queues, t.q, ms)
         /\ threads' = [threads EXCEPT ![w] =
              Send([t EXCEPT
                      !.calls = Append(@, UseCaseAt(t)) \o
                                (IF builtin
                                 THEN <<UseCaseCall("builtin", 0, 0)>>
                                 ELSE <<>>),
                      !.execs = Append(@, [task |-> t.idx, error |-> e]),
                      !.err = err,
                      !.summary = b,
                      !.idx = IF more THEN @ + 1 ELSE @,
                      !.step = @ + 1,
                      !.pc = IF more THEN "code_call" ELSE "report_call"],
                   ms)]
    /\ last' = NoReturn
    /\ UNCHANGED <<orch, call>>
    /\ UNCHANGED env

\* report_result = report_use_case.execute(...), or the built-in report
\* rendered; for _ in range(3): session_queue.put(final_result)
\* self.session_results[session_id] = final_result
R_Report(w) ==
    /\ Running(w, "report_call")
    /\ LET ms == Copies(CompletedCopies, FinalResult(w)) IN
       /\ queues' = PutAll(queues, threads[w].q, ms)
       /\ threads' = [threads EXCEPT ![w] =
            Send([threads[w] EXCEPT
                    !.pc = "finally",
                    !.calls = Append(@, UseCaseAt(threads[w]))],
                 ms)]
    /\ session_results' =
         [session_results EXCEPT ![threads[w].sid] = FinalResult(w)]
    /\ last' = NoReturn
    /\ UNCHANGED <<session_jobs, session_queues, session_thread_counters,
                   sandbox, call>>
    /\ UNCHANGED env

\* the error status put without the text of the exception
R_ExceptNoText(w) ==
    /\ w \in DOMAIN threads /\ threads[w].pc \in CallPcs
    /\ \E e \in Raises(threads[w].pc) :
         /\ queues' = PutAll(queues, threads[w].q, <<ErrorResult(w)>>)
         /\ session_results' =
              [session_results EXCEPT ![threads[w].sid] =
                 IF @ # Absent THEN ErrorResult(w) ELSE @]
         /\ threads' = [threads EXCEPT ![w] =
              Send([threads[w] EXCEPT
                      !.pc = "finally", !.raised = e, !.at = threads[w].pc,
                      !.calls = Append(@, UseCaseAt(threads[w]))],
                   <<ErrorResult(w)>>)]
    /\ sandbox' \in IF threads[w].pc = "exec_call"
                    THEN {sandbox, ExecuteCode(sandbox, w)} ELSE {sandbox}
    /\ last' = NoReturn
    /\ UNCHANGED <<session_jobs, session_queues, session_thread_counters, call>>
    /\ UNCHANGED env

\* the exception is dropped and the run goes on to its finally clause
R_ExceptSilent(w) ==
    /\ w \in DOMAIN threads /\ threads[w].pc \in CallPcs
    /\ \E e \in Raises(threads[w].pc) :
         threads' = [threads EXCEPT ![w] =
              [threads[w] EXCEPT
                 !.pc = "finally", !.raised = e, !.at = threads[w].pc,
                 !.calls = Append(@, UseCaseAt(threads[w]))]]
    /\ last' = NoReturn
    /\ UNCHANGED <<orch, queues, sandbox, call>>
    /\ UNCHANGED env

\* the call in progress raised e; a sandbox call raises before or after
\* create() made the context
\* except Exception as e:
\*     error_result = {"status": "error", "error": str(e)}
\*     session_queue.put(error_result)
\*     if session_id in self.session_results: ... = error_result
R_Except(w) ==
    /\ w \in DOMAIN threads /\ threads[w].pc \in CallPcs
    /\ \E e \in Raises(threads[w].pc) :
         /\ queues' = PutAll(queues, threads[w].q, <<Failure(w, e)>>)
         /\ session_results' =
              [session_results EXCEPT ![threads[w].sid] =
                 IF @ # Absent THEN Failure(w, e) ELSE @]
         /\ threads' = [threads EXCEPT ![w] =
              Send([threads[w] EXCEPT
                      !.pc = "finally", !.raised = e, !.at = threads[w].pc,
                      !.calls = Append(@, UseCaseAt(threads[w]))],
                   <<Failure(w, e)>>)]
    /\ sandbox' \in IF threads[w].pc = "exec_call"
                    THEN {sandbox, ExecuteCode(sandbox, w)} ELSE {sandbox}
    /\ last' = NoReturn
    /\ UNCHANGED <<session_jobs, session_queues, session_thread_counters, call>>
    /\ UNCHANGED env

\* finally: time.sleep(0.1); if session_id in self.session_jobs: del ...
R_Finally(w) ==
    /\ Running(w, "finally")
    /\ session_jobs' = [session_jobs EXCEPT ![threads[w].sid] = NoJob]
    /\ threads' = [threads EXCEPT ![w].pc = "dead"]
    /\ last' = NoReturn
    /\ UNCHANGED <<session_queues, session_results, session_thread_counters,
                   queues, sandbox, call>>
    /\ UNCHANGED env

RunStep(w) ==
    \/ R_Begin(w) \/ R_ValidateFail(w) \/ R_ValidateOk(w) \/ R_FileInfo(w)
    \/ R_Plan(w) \/ R_CodeGen(w) \/ R_Execute(w) \/ R_Report(w)
    \/ R_Except(w) \/ R_Finally(w)

\* one run of the watched session, polled by its UI loop
NextRun ==
    \/ \E s \in Watched, f \in FileKinds : Len(threads) = 0 /\ Start(s, f)
    \/ \E c \in Callers, s \in Watched : NoCall /\ PollGet(c, s)
    \/ \E c \in Callers : PollEmpty(c)
    \/ \E w \in 1..MaxRuns : RunStep(w)

SpecRun == Init /\ [][NextRun]_vars

\* every blocking call returns or raises, and the thread is scheduled
SpecRunFair == SpecRun /\ \A w \in 1..MaxRuns : WF_vars(RunStep(w))

-----------------------------------------------------------------------------
\* ExecuteCodeUseCase._convert_to_data_thread, applied to one raw result

MaxEntries == 2

\* nothing was ever started
NothingStarted ==
    /\ session_jobs = [s \in Sessions |-> NoJob]
    /\ session_queues = [s \in Sessions |-> NoQueue]
    /\ session_results = [s \in Sessions |-> Absent]
    /\ session_thread_counters = [s \in Sessions |-> NoCounter]
    /\ queues = <<>>
    /\ threads = <<>>
    /\ sandbox = [id |-> NoSandbox]

\* an entry of the results list: a dictionary with its "type" and whether it
\* has "content", an object with a non-empty png attribute, an object with
\* a text attribute, or anything else
RawEntries ==
    {[form |-> "dict", type |-> t, content |-> c] :
        t \in {"png", "raw", "svg"}, c \in {"data", "missing"}}
    \cup {[form |-> f, type |-> "-", content |-> "data"] :
            f \in {"png_object", "text_object", "other"}}

\* the value of execution_result["error"]: None, a dictionary with or
\* without "traceback", or a string
RawErrors == {"None", "traceback", "no_traceback", "string"}

SeqsUpTo(S, n) == UNION {[1..k -> S] : k \in 0..n}

\* the dictionary execute_code returned: `logs` tells whether it has the
\* "logs" key with its stdout and stderr lists
RawResults ==
    [results : SeqsUpTo(RawEntries, MaxEntries), error : RawErrors,
     logs : BOOLEAN, execution_count : {0, 1}]

\* the entry as _convert_execution_results appends it, <<>> when it appends
\* nothing; result.get("content", "")
ConvertEntry(e) ==
    IF e.form = "dict"
    THEN IF e.type \in {"png", "raw"}
         THEN <<[type |-> IF e.type = "png" THEN "image" ELSE "text",
                 data |-> IF e.content = "missing" THEN "" ELSE e.content]>>
         ELSE <<>>
    ELSE IF e.form = "png_object" THEN <<[type |-> "image", data |-> e.content]>>
    ELSE IF e.form = "text_object" THEN <<[type |-> "text", data |-> e.content]>>
    ELSE <<>>

RECURSIVE _convert_execution_results(_)
_convert_execution_results(raw_results) ==
    IF raw_results = <<>> THEN <<>>
    ELSE ConvertEntry(Head(raw_results))
         \o _convert_execution_results(Tail(raw_results))

\* what the call gives: the DataThread it returns or the exception it raises
Gives(raised, thread) == [raised |-> raised, thread |-> thread]

NoThread == [id |-> -1, error |-> "None", results |-> <<>>]

\* results = self._convert_execution_results(execution_result["results"])
\* if execution_result.get("error"):
\*     error_info = execution_result["error"].get("traceback")
\* stdout = "".join(execution_result["logs"]["stdout"]).strip() ...
\* return DataThread(id=execution_result["execution_count"], ...)
_convert_to_data_thread(execution_result) ==
    IF execution_result.error = "string"
    THEN Gives("AttributeError", NoThread)
    ELSE IF ~execution_result.logs
    THEN Gives("KeyError", NoThread)
    ELSE Gives("-",
           [id |-> execution_result.execution_count,
            error |-> IF execution_result.error = "traceback"
                      THEN "traceback" ELSE "None",
            results |-> _convert_execution_results(execution_result.results)])

\* the call is made with one of the raw results
InitAdapter ==
    /\ NothingStarted
    /\ call \in {[op |-> "convert", pc |-> "called", arg |-> r] :
                   r \in RawResults}
    /\ last = NoReturn
    /\ fs = InitialFiles
    /\ _temp_files_by_session = <<>>
    /\ selected = [s \in Sessions |-> NoSelection]
    /\ kernel = NoKernel
    /\ session_state = [s \in Sessions |-> NoPage]

Convert ==
    /\ call.pc = "called"
    /\ call' = [call EXCEPT !.pc = "returned"]
    /\ last' = Returned("convert", "-", _convert_to_data_thread(call.arg))
    /\ UNCHANGED <<orch, queues, threads, sandbox>>
    /\ UNCHANGED env

NextAdapter == Convert

SpecAdapter == InitAdapter /\ [][NextAdapter]_vars

-----------------------------------------------------------------------------
\* Files, uploads and the file lifecycle manager.  Of a run only what
\* touches files is followed here: the re-validation of the path; the
\* pipeline reads the file and unlinks nothing.

\* the paths handed to validation and to a run
PathArgs ==
    {<<"data", "sales.csv">>, <<".", "data", "sales.csv">>,
     <<"data", "missing.csv">>, <<"data", "..", "..", "etc", "passwd">>,
     <<"data", "inside.lnk">>, <<"data", "outside.lnk">>, Upload, Passwd}

\* the files handed to track_temp_file, the files whose unlink can fail
TrackArgs == {Upload, Dataset}

\* the tracked files of the session that one cleanup_session_files unlinks;
\* unlink fails with OSError on the files in denied
Unlinked(files, registry, session_id, denied) ==
    IF session_id \notin DOMAIN registry THEN {}
    ELSE {p \in registry[session_id] : is_file(files, p) /\ p \notin denied}

Remove(files, gone) == [p \in DOMAIN files \ gone |-> files[p]]

\* what cleanup_session_files leaves in the registry
Forget(files, registry, session_id, denied) ==
    IF session_id \notin DOMAIN registry THEN registry
    ELSE LET temp_files ==
                 registry[session_id]
                     \ Unlinked(files, registry, session_id, denied)
         IN IF temp_files = {}
            THEN [s \in DOMAIN registry \ {session_id} |-> registry[s]]
            ELSE [registry EXCEPT ![session_id] = temp_files]

Track(registry, session_id, file_path) ==
    [s \in DOMAIN registry \cup {session_id} |->
       (IF s \in DOMAIN registry THEN registry[s] ELSE {})
           \cup (IF s = session_id THEN {resolve(file_path)} ELSE {})]

\* the folder picker of the file browser, with validate_file_path
_render_folder_selection(s, file_path) ==
    LET ok == validate_file_path(fs, _temp_files_by_session, file_path)
    IN /\ last' = Returned("validate_file_path", "-",
                           [path |-> file_path, accepted |-> ok])
       /\ selected' = IF ok
                      THEN [selected EXCEPT ![s] =
                              [path |-> file_path, is_temporary |-> FALSE]]
                      ELSE selected
       /\ UNCHANGED <<orch, queues, threads, sandbox, call, kernel,
                 session_state>>
       /\ UNCHANGED <<fs, _temp_files_by_session>>

\* an upload: the earlier upload of the session is cleaned up, the bytes
\* are written to a fresh file of the temp root, which is then tracked
_render_file_upload(s, denied) ==
    LET gone == Unlinked(fs, _temp_files_by_session, s, denied)
        kept == Forget(fs, _temp_files_by_session, s, denied)
    IN /\ Upload \notin DOMAIN Remove(fs, gone)
       /\ fs' = [p \in (DOMAIN fs \ gone) \cup {Upload} |->
                   IF p = Upload THEN "uploaded" ELSE fs[p]]
       /\ _temp_files_by_session' = Track(kept, s, Upload)
       /\ selected' = [selected EXCEPT ![s] =
                         [path |-> Upload, is_temporary |-> TRUE]]
       /\ last' = Returned("_render_file_upload", s, Plain("none"))
       /\ UNCHANGED <<orch, queues, threads, sandbox, call, kernel,
                 session_state>>

track_temp_file(s, file_path) ==
    /\ _temp_files_by_session' = Track(_temp_files_by_session, s, file_path)
    /\ last' = Returned("track_temp_file", s, Plain("none"))
    /\ UNCHANGED <<orch, queues, threads, sandbox, call, fs, selected,
                 kernel, session_state>>

\* a mutant of cleanup_session_files: the selected file goes as well
cleanup_selected_too(s, denied) ==
    LET gone == Unlinked(fs, _temp_files_by_session, s, denied)
    IN /\ fs' = Remove(fs, gone \cup {resolve(selected[s].path)})
       /\ _temp_files_by_session' =
              Forget(fs, _temp_files_by_session, s, denied)
       /\ last' = Returned("cleanup_session_files", s, Plain("none"))
       /\ UNCHANGED <<orch, queues, threads, sandbox, call, selected,
                    kernel, session_state>>

cleanup_session_files(s, denied) ==
    LET gone == Unlinked(fs, _temp_files_by_session, s, denied)
    IN /\ fs' = Remove(fs, gone)
       /\ _temp_files_by_session' =
              Forget(fs, _temp_files_by_session, s, denied)
       /\ last' = Returned("cleanup_session_files", s, Plain("none"))
       /\ UNCHANGED <<orch, queues, threads, sandbox, call, selected,
                    kernel, session_state>>

\* the sessions of the registry one after the other, first then second
cleanup_all_temp_files(first, second, denied) ==
    LET gone1 == Unlinked(fs, _temp_files_by_session, first, denied)
        fs1 == Remove(fs, gone1)
        reg1 == Forget(fs, _temp_files_by_session, first, denied)
        gone2 == Unlinked(fs1, reg1, second, denied)
    IN /\ first # second
       /\ fs' = Remove(fs1, gone2)
       /\ _temp_files_by_session' = Forget(fs1, reg1, second, denied)
       /\ last' = Returned("cleanup_all_temp_files", "-", Plain("none"))
       /\ UNCHANGED <<orch, queues, threads, sandbox, call, selected,
                    kernel, session_state>>

\* a run handed file_path: the re-validation of _run_analysis_job
Revalidate(s, file_path, is_temporary_file) ==
    /\ last' = Returned("revalidate", "-",
                        [path |-> file_path,
                         accepted |-> revalidate(fs, _temp_files_by_session,
                                                 file_path,
                                                 is_temporary_file)])
    /\ UNCHANGED <<orch, queues, threads, sandbox, call>>
    /\ UNCHANGED env

\* the teardown of the UI after a run and on reset
_cleanup_upload_if_needed(s, denied) ==
    /\ selected[s].is_temporary
    /\ fs' = Remove(fs, Unlinked(fs, _temp_files_by_session, s, denied))
    /\ _temp_files_by_session' = Forget(fs, _temp_files_by_session, s, denied)
    /\ selected' = [selected EXCEPT ![s] = NoSelection]
    /\ last' = Returned("_cleanup_upload_if_needed", s, Plain("none"))
    /\ UNCHANGED <<orch, queues, threads, sandbox, call, kernel,
                 session_state>>

NextFiles ==
    \/ \E s \in Sessions, p \in PathArgs : _render_folder_selection(s, p)
    \/ \E s \in Sessions, d \in SUBSET TrackArgs : _render_file_upload(s, d)
    \/ \E s \in Sessions, p \in TrackArgs : track_temp_file(s, p)
    \/ \E s \in Sessions, d \in SUBSET TrackArgs : cleanup_session_files(s, d)
    \/ \E s, t \in Sessions, d \in SUBSET TrackArgs :
          cleanup_all_temp_files(s, t, d)
    \/ \E s \in Sessions, p \in PathArgs, t \in BOOLEAN : Revalidate(s, p, t)
    \/ \E s \in Sessions, d \in SUBSET TrackArgs : _cleanup_upload_if_needed(s, d)

SpecFiles == Init /\ [][NextFiles]_vars

-----------------------------------------------------------------------------
\* JupyterSandboxRepository._execute_code_internal and the kernel it talks
\* to.  The kernel runs the requests in the order received and publishes,
\* for each, status busy, its output and status idle on the iopub channel;
\* every message carries the id of the request that caused it.

MaxRequests == 3

ContentTypes == {"stream", "display_data", "error"}

IopubMsg(parent, msg_type, execution_state) ==
    [parent |-> parent, msg_type |-> msg_type,
     execution_state |-> execution_state]

\* what the kernel publishes for request r whose code produces outputs
Output(r, outputs) ==
    <<IopubMsg(r, "status", "busy")>>
        \o [i \in 1..Len(outputs) |-> IopubMsg(r, outputs[i], "-")]
        \o <<IopubMsg(r, "status", "idle")>>

\* create() up to the kernel_client.execute of the initialization code,
\* which prints a line or fails with an error
X_Create(init) ==
    /\ kernel.pc = "none" /\ kernel.count < MaxRequests
    /\ kernel' = [kernel EXCEPT !.pc = "receiving",
                                !.creating = TRUE,
                                !.init = init,
                                !.count = @ + 1,
                                !.msg_id = kernel.count + 1,
                                !.todo = Output(kernel.count + 1, <<init>>),
                                !.iopub = <<>>,
                                !.collected = <<>>,
                                !._kernel_manager = "manager",
                                !._kernel_client = "client",
                                !._temp_dir = "dir",
                                !.on_disk = TRUE,
                                !._sandbox_id = "jupyter-sandbox-001"]
    /\ last' = NoReturn
    /\ UNCHANGED <<orch, queues, threads, sandbox, call>>
    /\ UNCHANGED <<fs, _temp_files_by_session, selected, session_state>>

\* the statements of create() before the sandbox id is set, in order
CreateSteps == <<"start_kernel", "start_channels", "mkdtemp">>

\* create() when the statement CreateSteps[at] raises: what was assigned
\* before it stays, and RuntimeError is raised from the except clause
X_CreateFails(at) ==
    /\ kernel.pc = "none"
    /\ kernel' = [kernel EXCEPT
                    !.pc = "failed",
                    !._kernel_manager = "manager",
                    !._kernel_client = IF at > 1 THEN "client" ELSE @]
    /\ last' = Returned("create", "-", "RuntimeError")
    /\ UNCHANGED <<orch, queues, threads, sandbox, call>>
    /\ UNCHANGED <<fs, _temp_files_by_session, selected, session_state>>

\* _execute_code_internal has returned: init_result is logged and the
\* sandbox id returned
X_CreateReturns ==
    /\ kernel.pc = "ready" /\ kernel.creating
    /\ kernel' = [kernel EXCEPT !.creating = FALSE]
    /\ last' = Returned("create", "-", "jupyter-sandbox-001")
    /\ UNCHANGED <<orch, queues, threads, sandbox, call>>
    /\ UNCHANGED <<fs, _temp_files_by_session, selected, session_state>>

\* execute_code on a created sandbox:
\* msg_id = self._kernel_client.execute(code)
X_Execute(outputs) ==
    /\ kernel.pc = "ready" /\ ~kernel.creating
    /\ kernel.count < MaxRequests
    /\ kernel' = [kernel EXCEPT !.pc = "receiving",
                                !.count = @ + 1,
                                !.msg_id = kernel.count + 1,
                                !.todo = @ \o Output(kernel.count + 1, outputs),
                                !.collected = <<>>]
    /\ last' = NoReturn
    /\ UNCHANGED <<orch, queues, threads, sandbox, call>>
    /\ UNCHANGED <<fs, _temp_files_by_session, selected, session_state>>

\* the kernel publishes its next message
KernelPublish ==
    /\ kernel.todo # <<>>
    /\ kernel' = [kernel EXCEPT !.iopub = Append(@, Head(kernel.todo)),
                                !.todo = Tail(@)]
    /\ last' = NoReturn
    /\ UNCHANGED <<orch, queues, threads, sandbox, call>>
    /\ UNCHANGED <<fs, _temp_files_by_session, selected, session_state>>

\* the results list built from the display messages read: a figure gives
\* an "image/png" and a "text/plain" entry
RECURSIVE DisplayResults(_)
DisplayResults(collected) ==
    IF collected = <<>> THEN <<>>
    ELSE (IF Head(collected).msg_type = "display_data"
          THEN <<[form |-> "dict", type |-> "png", content |-> "data"],
                 [form |-> "dict", type |-> "raw", content |-> "data"]>>
          ELSE <<>>) \o DisplayResults(Tail(collected))

\* the dictionary the loop returns: the traceback of an error message goes
\* to stderr and sets exit_code; "error" is None
execution_result(collected) ==
    [results |-> DisplayResults(collected), error |-> "None", logs |-> TRUE,
     execution_count |-> 1]

\* what execute returns: the messages it collected, the request whose
\* idle status ended the loop (0 if the loop ended otherwise), and the
\* exception of get_iopub_msg that ended it, if one did
Executed(ended_by) ==
    Returned("execute", "-",
             [msg_id |-> kernel.msg_id, collected |-> kernel'.collected,
              ended_by |-> ended_by, raised |-> "-"])

\* one turn of the loop in which get_iopub_msg returns a message
X_Receive ==
    /\ kernel.pc = "receiving" /\ kernel.iopub # <<>>
    /\ LET msg == Head(kernel.iopub)
           done == msg.msg_type = "status" /\ msg.execution_state = "idle"
       IN /\ kernel' = [kernel EXCEPT
                          !.iopub = Tail(@),
                          !.collected =
                              IF msg.msg_type \in ContentTypes
                              THEN Append(@, msg) ELSE @,
                          !.pc = IF done THEN "ready" ELSE @]
          /\ last' = IF done THEN Executed(msg.parent) ELSE NoReturn
    /\ UNCHANGED <<orch, queues, threads, sandbox, call>>
    /\ UNCHANGED <<fs, _temp_files_by_session, selected, session_state>>

\* what get_iopub_msg(timeout=2.0) raises: queue.Empty when no message
\* came in time (its text is empty), an exception whose text names the
\* timeout, or an error of the transport
RecvErrors == {"Empty", "TimeoutError", "ConnectionError"}

\* "Timeout" in str(e)
NamesTimeout(e) == e = "TimeoutError"

\* no message within the receive timeout, or the transport fails:
\* except Exception as e: if "Timeout" in str(e): continue
\*                        break
X_RecvRaises(e) ==
    /\ kernel.pc = "receiving" /\ kernel.iopub = <<>>
    /\ IF NamesTimeout(e)
       THEN /\ kernel' = kernel
            /\ last' = NoReturn
       ELSE /\ kernel' = [kernel EXCEPT !.pc = "ready"]
            /\ last' = [Executed(0) EXCEPT !.val.raised = e]
    /\ UNCHANGED <<orch, queues, threads, sandbox, call>>
    /\ UNCHANGED <<fs, _temp_files_by_session, selected, session_state>>

\* the loop ends without an idle status: the overall time is used up
X_LoopEnds ==
    /\ kernel.pc = "receiving"
    /\ kernel' = [kernel EXCEPT !.pc = "ready"]
    /\ last' = Executed(0)
    /\ UNCHANGED <<orch, queues, threads, sandbox, call>>
    /\ UNCHANGED <<fs, _temp_files_by_session, selected, session_state>>

\* a repository just constructed: no kernel, no client
MaxKills == 2

\* the sub-steps of kill(), each in a try of its own
KillSteps == {"stop_channels", "shutdown_kernel", "rmtree"}

\* the sub-steps that one kill() runs
KillRuns(k) ==
    IF k._sandbox_id = "None" THEN {}
    ELSE {st \in KillSteps :
            \/ st = "stop_channels" /\ k._kernel_client # "None"
            \/ st = "shutdown_kernel" /\ k._kernel_manager # "None"
            \/ st = "rmtree" /\ k._temp_dir # "None" /\ k.on_disk}

\* kill() between the calls of create and execute_code; the sub-steps in
\* failing raise.  Without a sandbox id only _visualization_service is
\* reset.
X_Kill(failing) ==
    /\ kernel.pc \in {"none", "ready", "failed", "killed"}
    /\ ~kernel.creating
    /\ kernel.kills < MaxKills
    /\ failing \subseteq KillRuns(kernel)
    /\ LET ran == KillRuns(kernel)
           removed == "rmtree" \in ran \ failing
       IN /\ kernel' =
               IF kernel._sandbox_id = "None"
               THEN [kernel EXCEPT !.kills = @ + 1]
               ELSE [kernel EXCEPT
                       !.kills = @ + 1,
                       !.pc = "killed",
                       !._kernel_client = "None",
                       !._kernel_manager = "None",
                       !._temp_dir = IF removed THEN "None" ELSE @,
                       !.on_disk = IF removed THEN FALSE ELSE @,
                       !._sandbox_id = "None"]
          /\ last' = Returned("kill", "-", [raised |-> "-", ran |-> ran])
    /\ UNCHANGED <<orch, queues, threads, sandbox, call>>
    /\ UNCHANGED <<fs, _temp_files_by_session, selected, session_state>>

InitKernel ==
    /\ NothingStarted
    /\ call = [c \in Callers |-> IdleCall]
    /\ last = NoReturn
    /\ fs = InitialFiles
    /\ _temp_files_by_session = <<>>
    /\ selected = [s \in Sessions |-> NoSelection]
    /\ kernel = NoKernel
    /\ session_state = [s \in Sessions |-> NoPage]

NextKernel ==
    \/ \E init \in {"stream", "error"} : X_Create(init)
    \/ \E at \in DOMAIN CreateSteps : X_CreateFails(at)
    \/ X_CreateReturns
    \/ \E failing \in SUBSET KillSteps : X_Kill(failing)
    \/ \E outputs \in SeqsUpTo(ContentTypes, 1) : X_Execute(outputs)
    \/ KernelPublish
    \/ X_Receive
    \/ \E e \in RecvErrors : X_RecvRaises(e)
    \/ X_LoopEnds

SpecKernel == InitKernel /\ [][NextKernel]_vars

-----------------------------------------------------------------------------
\* main() of the chat page: the passes of the script that st.rerun()
\* schedules, with the runs of the orchestrator they start and poll.  No
\* widget is touched after the submit: a pass runs only when one was
\* scheduled.

\* if submit_button and user_input: process_user_message_async(...), and on
\* "STARTED" job_running = True and st.rerun(); the button is disabled while
\* job_running, and a start refused for a job still alive changes nothing
UI_Submit(s, f) ==
    /\ ~session_state[s].job_running
    /\ ~session_state[s].rerun
    /\ Len(threads) < MaxRuns
    /\ IF session_jobs[s] # NoJob /\ is_alive(session_jobs[s])
       THEN /\ last' = Returned("submit", s, Plain("refused"))
            /\ UNCHANGED <<orch, queues, threads, session_state>>
       ELSE /\ session_queues' = [session_queues EXCEPT ![s] = Len(queues) + 1]
            /\ queues' = Collect(Append(queues, <<>>), session_queues', threads)
            /\ session_results' = [session_results EXCEPT ![s] = None]
            /\ session_thread_counters' =
                 [session_thread_counters EXCEPT ![s] =
                    (IF @ = NoCounter THEN 0 ELSE @) + 1]
            /\ threads' = Append(threads, NewThread(s, f, Len(queues) + 1))
            /\ session_jobs' = [session_jobs EXCEPT ![s] = Len(threads) + 1]
            /\ session_state' = [session_state EXCEPT ![s] =
                                   [job_running |-> TRUE, rerun |-> TRUE]]
            /\ last' = Returned("submit", s, Plain("STARTED"))
    /\ UNCHANGED <<sandbox, call, fs, _temp_files_by_session, selected, kernel>>

\* the branches of "if st.session_state.job_running:" on status["status"]:
\* what the pass leaves in st.session_state
PageAfter(page, status) ==
    IF ~page.job_running THEN [page EXCEPT !.rerun = FALSE]
    ELSE IF status = "progress" THEN [page EXCEPT !.rerun = TRUE]
    ELSE IF status = "completed"
    THEN [page EXCEPT !.job_running = FALSE, !.rerun = TRUE]
    ELSE IF status = "error"
    THEN [page EXCEPT !.job_running = FALSE, !.rerun = FALSE]
    ELSE [page EXCEPT !.rerun = FALSE]

\* one scheduled pass of main(): the poll when job_running, the branch taken
\* on its status, and _cleanup_upload_if_needed() after a terminal status
UI_Render(s, denied) ==
    /\ session_state[s].rerun
    /\ LET polls == session_state[s].job_running
           status == get_job_status(s)
           page == PageAfter(session_state[s], status.status)
           cleans == /\ polls
                     /\ status.status \in {"completed", "error"}
                     /\ selected[s].is_temporary
       IN /\ queues' = IF /\ polls
                          /\ session_queues[s] # NoQueue
                          /\ queues[session_queues[s]] # <<>>
                       THEN [queues EXCEPT ![session_queues[s]] = Tail(@)]
                       ELSE queues
          /\ session_state' = [session_state EXCEPT ![s] = page]
          /\ fs' = IF cleans
                   THEN Remove(fs, Unlinked(fs, _temp_files_by_session, s,
                                            denied))
                   ELSE fs
          /\ _temp_files_by_session' =
               IF cleans
               THEN Forget(fs, _temp_files_by_session, s, denied)
               ELSE _temp_files_by_session
          /\ selected' = IF cleans
                         THEN [selected EXCEPT ![s] = NoSelection]
                         ELSE selected
          /\ last' = Returned("render", s,
                              IF polls THEN status ELSE Plain("none"))
    /\ UNCHANGED <<orch, threads, sandbox, call, kernel>>

NextUI ==
    \/ \E s \in Sessions, f \in DataFiles : UI_Submit(s, f)
    \/ \E s \in Sessions : UI_Render(s, {})
    \/ \E w \in 1..MaxRuns : WorkerStep(w)

SpecUI == Init /\ [][NextUI]_vars

-----------------------------------------------------------------------------
\* _save_execution_artifacts: the images among the results of a DataThread
\* are decoded and written to the output directory, and the paths written
\* are recorded on the DataThread.  call holds the DataThread and what the
\* first save left, fs the files.

MaxResults == 2
MaxSaves == 2

output_dir == <<"output", "s1", "t0">>

\* the "data" of a result: a str (plain base64, a data URI, or text that
\* embeds a data URI), bytes, or nothing
Artifacts ==
    {[type |-> "image", data |-> [py |-> "str", uri |-> "-", b64 |-> "QQ=="]],
     [type |-> "png", data |-> [py |-> "bytes", uri |-> "-", b64 |-> "B"]],
     [type |-> "display_data",
      data |-> [py |-> "str", uri |-> "prefix", b64 |-> "Qg=="]],
     [type |-> "text/plain",
      data |-> [py |-> "str", uri |-> "embedded", b64 |-> "QQ=="]],
     [type |-> "image", data |-> [py |-> "str", uri |-> "-", b64 |-> "QQ"]],
     [type |-> "image", data |-> [py |-> "none", uri |-> "-", b64 |-> ""]],
     [type |-> "text", data |-> [py |-> "str", uri |-> "-", b64 |-> "QQ=="]]}

\* base64.b64decode: the bytes, or ValueError for incorrect padding
b64decode(s) ==
    IF s = "QQ==" THEN "A" ELSE IF s = "Qg==" THEN "B" ELSE "ValueError"

\* is_binary_image or is_text_image
IsImage(artifact) ==
    \/ /\ artifact.type \in {"image", "png", "display_data"}
       /\ artifact.data.py # "none"
    \/ /\ artifact.type = "text/plain"
       /\ artifact.data.py = "str"
       /\ artifact.data.uri # "-"

\* the binary of an image artifact, "ValueError" when it does not decode
Binary(artifact) ==
    IF artifact.data.py = "bytes" THEN artifact.data.b64
    ELSE b64decode(artifact.data.b64)

\* filename = f"{process_id}_{thread_id}_{index}.png" under output_dir
ArtifactPath(thread, index) ==
    Append(output_dir, <<thread.process_id, thread.thread_id, index>>)

\* decoded_artifacts: for each result, in order, its path and binary
RECURSIVE Decoded(_, _, _)
Decoded(thread, results, index) ==
    IF results = <<>> THEN <<>>
    ELSE (IF IsImage(Head(results)) /\ Binary(Head(results)) # "ValueError"
          THEN <<[path |-> ArtifactPath(thread, index),
                  binary |-> Binary(Head(results))]>>
          ELSE <<>>)
         \o Decoded(thread, Tail(results), index + 1)

\* the loop of write_bytes: the files, and the paths appended to
\* pathes["images"]; the writes of the paths in denied fail with OSError
RECURSIVE Written(_, _, _)
Written(files, decoded, denied) ==
    IF decoded = <<>> THEN files
    ELSE LET d == Head(decoded)
             now == IF d.path \in denied THEN files
                    ELSE [p \in DOMAIN files \cup {d.path} |->
                            IF p = d.path THEN d.binary ELSE files[p]]
         IN Written(now, Tail(decoded), denied)

RECURSIVE Saved(_, _)
Saved(decoded, denied) ==
    IF decoded = <<>> THEN <<>>
    ELSE (IF Head(decoded).path \in denied THEN <<>>
          ELSE <<Head(decoded).path>>)
         \o Saved(Tail(decoded), denied)

\* a DataThread with some results is about to be persisted
InitArtifacts ==
    /\ NothingStarted
    /\ call \in {[op |-> "save", saves |-> 0, failed |-> FALSE,
                  thread |-> [process_id |-> "s1_1", thread_id |-> 1,
                              results |-> r, images |-> <<>>],
                  once |-> [images |-> <<>>, fs |-> InitialFiles]] :
                   r \in SeqsUpTo(Artifacts, MaxResults)}
    /\ last = NoReturn
    /\ fs = InitialFiles
    /\ _temp_files_by_session = <<>>
    /\ selected = [s \in Sessions |-> NoSelection]
    /\ kernel = NoKernel
    /\ session_state = [s \in Sessions |-> NoPage]

_save_execution_artifacts(denied) ==
    /\ call.saves < MaxSaves
    /\ LET decoded == Decoded(call.thread, call.thread.results, 0)
           saved == Saved(decoded, denied)
           \* pathes.setdefault("images", []).append(str(file_path))
           images == call.thread.images \o saved
       IN /\ denied \subseteq {decoded[i].path : i \in DOMAIN decoded}
          /\ fs' = Written(fs, decoded, denied)
          /\ call' = [call EXCEPT
                        !.saves = @ + 1,
                        !.failed = @ \/ denied # {},
                        !.thread.images = images,
                        !.once = IF call.saves = 0
                                 THEN [images |-> images, fs |-> fs']
                                 ELSE @]
          /\ last' = Returned("_save_execution_artifacts", "-", saved)
    /\ UNCHANGED <<orch, queues, threads, sandbox>>
    /\ UNCHANGED <<_temp_files_by_session, selected, kernel, session_state>>

NextArtifacts ==
    \E denied \in SUBSET {ArtifactPath(call.thread, i) :
                             i \in 0..MaxResults - 1} :
       _save_execution_artifacts(denied)

SpecArtifacts == InitArtifacts /\ [][NextArtifacts]_vars

-----------------------------------------------------------------------------
\* Properties of the facade called by one UI loop (SpecSteps)

\* the runs of session s, oldest first, are the threads started for it
RunsOf(s) == {w \in DOMAIN threads : threads[w].sid = s}

LiveRuns(s) == {w \in RunsOf(s) : is_alive(w)}

\* C1: a start whose alive test finds the session's worker alive returns the
\* ERROR string, starts no thread and leaves the session's queue object, the
\* queue contents, the stored result and the thread counter as they were.
C1_RejectedStartChangesNothing ==
    [][\A c \in Callers :
         (/\ call[c].op = "start" /\ call[c].pc = "test"
          /\ call[c].job # NoJob /\ is_alive(call[c].job)
          /\ call'[c] # call[c])
         => /\ last' = Returned("start", call[c].sid, Plain("ERROR"))
            /\ call'[c] = IdleCall
            /\ UNCHANGED <<orch, queues, threads>>]_vars

\* a start was just rejected while the worker is alive, its queue holds
\* messages and the counter stands at 1
C1_Witness ==
    /\ last = Returned("start", "s1", Plain("ERROR"))
    /\ LiveRuns("s1") # {}
    /\ session_queues["s1"] # NoQueue
    /\ queues[session_queues["s1"]] # <<>>
    /\ session_thread_counters["s1"] = 1

\* C3: a poll that finds a message in the session's queue removes and returns
\* the oldest one; a poll goes on to the job only when it found the queue
\* empty, removes nothing, and then returns running when the session's job is
\* alive, otherwise the stored result when there is one, otherwise idle.
C3_PollPriority ==
    [][\A c \in Callers, s \in Sessions :
         /\ (/\ \A d \in Callers : call[d].op # "poll"
             /\ \/ call'[c].op = "poll" /\ call'[c].sid = s
                \/ call' = call /\ last'.op = "poll" /\ last'.sid = s)
            => LET q == session_queues[s] IN
               IF q # NoQueue /\ queues[q] # <<>>
               THEN /\ last' = Returned("poll", s, Head(queues[q]))
                    /\ queues' = [queues EXCEPT ![q] = Tail(@)]
               ELSE /\ queues' = queues
                    /\ \/ q # NoQueue /\ call'[c].pc = "empty"
                       \/ /\ last' = Returned("poll", s, Plain("idle"))
                          /\ ~(session_jobs[s] # NoJob /\ is_alive(session_jobs[s]))
                          /\ session_results[s] \in {Absent, None}
         /\ (call[c].op = "poll" /\ call[c].sid = s /\ call'[c] # call[c])
            => /\ queues' = queues
               /\ last' = Returned("poll", s,
                    IF session_jobs[s] # NoJob /\ is_alive(session_jobs[s])
                    THEN Plain("running")
                    ELSE IF session_results[s] \notin {Absent, None}
                    THEN session_results[s]
                    ELSE Plain("idle"))]_vars

\* a poll found the queue drained and the job ended, and returned the result
C3_Witness ==
    /\ last.op = "poll" /\ last.sid = "s1"
    /\ last.val = session_results["s1"]
    /\ last.val.status = "completed"
    /\ queues[session_queues["s1"]] = <<>>
    /\ LiveRuns("s1") = {}

\* the run a session's latest accepted start began, 0 before the first
LatestRun(s) ==
    IF RunsOf(s) = {} THEN 0
    ELSE CHOOSE w \in RunsOf(s) : \A v \in RunsOf(s) : v <= w

\* the start call of caller c returns
StartReturns(c) ==
    call[c].op = "start" /\ call[c].pc = "register" /\ call'[c] # call[c]

\* C4 as stated: when an accepted start returns STARTED the session has a new
\* and empty queue, its stored result is None, its counter is one more than
\* before the call and a live worker is registered as its job.
C4_AcceptedStartAsStated ==
    [][\A c \in Callers :
         StartReturns(c)
         => LET s == call[c].sid
                q == session_queues'[s] IN
            /\ last' = Returned("start", s, Plain("STARTED"))
            /\ q # NoQueue /\ q # call[c].q0
            /\ queues'[q] = <<>>
            /\ session_results'[s] = None
            /\ session_thread_counters'[s] = call[c].cnt0 + 1
            /\ session_jobs'[s] = call[c].th
            /\ threads'[call[c].th].pc # "dead"]_vars

\* C4 amended: when an accepted start returns STARTED the session has a new
\* queue that holds nothing but messages of the run just started, its stored
\* result is None or that run's own terminal result, its counter is one more
\* than before the call and the thread of that run is registered as its job.
C4_AcceptedStart ==
    [][\A c \in Callers :
         StartReturns(c)
         => LET s == call[c].sid
                q == session_queues'[s]
                w == call[c].th IN
            /\ last' = Returned("start", s, Plain("STARTED"))
            /\ q # NoQueue /\ q # call[c].q0
            /\ \A i \in DOMAIN queues'[q] : queues'[q][i].run = w
            /\ \/ session_results'[s] = None
               \/ /\ session_results'[s].run = w
                  /\ session_results'[s].status \in {"error", "completed"}
            /\ session_thread_counters'[s] = call[c].cnt0 + 1
            /\ session_jobs'[s] = w
            /\ threads'[w].sid = s]_vars

\* the second start of s1 has just returned and its worker has already
\* put messages on the new queue
C4_Witness ==
    /\ last = Returned("start", "s1", Plain("STARTED"))
    /\ session_jobs["s1"] = 2
    /\ session_thread_counters["s1"] = 2
    /\ queues[session_queues["s1"]] # <<>>

\* the worker has put no message yet
BeforeFirstMessage(w) == threads[w].pc \in {"start", "validate"}

\* C5: a poll of a session for which no run was ever started returns idle; a
\* poll made after start returned STARTED, while the worker of that run has
\* put no message yet, returns running.
C5_PollBeforeFirstMessage ==
    [][\A s \in Sessions :
         (last'.op = "poll" /\ last'.sid = s)
         => /\ RunsOf(s) = {} => last'.val = Plain("idle")
            /\ (/\ RunsOf(s) # {}
                /\ session_thread_counters[s] # NoCounter
                /\ BeforeFirstMessage(LatestRun(s)))
               => last'.val = Plain("running")]_vars

\* a poll returned running while the worker had not put its first message
C5_Witness ==
    /\ last = Returned("poll", "s1", Plain("running"))
    /\ LatestRun("s1") # 0
    /\ BeforeFirstMessage(LatestRun("s1"))
    /\ queues[session_queues["s1"]] = <<>>

\* C7: after an accepted start every poll of the session returns idle,
\* running, or a message or result of the run that start began: never a
\* message or a result of an earlier run.
C7_NoStaleStatus ==
    [][\A s \in Sessions :
         (last'.op = "poll" /\ last'.sid = s)
         => \/ last'.val \in {Plain("idle"), Plain("running")}
            \/ /\ last'.val.run = LatestRun(s)
               /\ last'.val.status \in {"progress", "error", "completed"}]_vars

\* a poll returned a message of the second run of s1, whose first run ended
\* with a result
C7_Witness ==
    /\ last.op = "poll" /\ last.sid = "s1"
    /\ last.val.run = 2 /\ LatestRun("s1") = 2
    /\ threads[1].sid = "s1" /\ threads[1].pc = "dead"
    /\ session_thread_counters["s1"] = 2

-----------------------------------------------------------------------------
\* Properties of overlapping facade calls (SpecConc)

\* C2: whatever the interleaving of the statements of overlapping start and
\* cleanup calls on a session, at most one worker of the session is alive.
C2_OneLiveWorkerPerSession ==
    \A s \in Sessions : Cardinality(LiveRuns(s)) <= 1

\* C6: the session's entries are removed only when none of its workers is
\* alive: a live worker always finds its session's queue and result entries.
C6_LiveWorkerKeepsItsState ==
    \A w \in DOMAIN threads :
       is_alive(w) => /\ session_queues[threads[w].sid] # NoQueue
                      /\ session_results[threads[w].sid] # Absent

\* w takes a step
Steps(w) == w \in DOMAIN threads /\ threads'[w] # threads[w]

\* the session of w has moved to a queue object made after the one that was
\* made for w
Superseded(w) == session_queues[threads[w].sid] > threads[w].own

\* C8: once the session has moved to the queue object of a newer run, no step
\* of the worker of the older run puts a message on the session's current
\* queue, changes the session's stored result or removes the job entry of
\* another run.
C8_OlderWorkerIsInert ==
    [][\A w \in DOMAIN threads :
         (Steps(w) /\ is_alive(w) /\ Superseded(w))
         => LET s == threads[w].sid IN
            /\ queues'[session_queues[s]] = queues[session_queues[s]]
            /\ session_results'[s] = session_results[s]
            /\ session_jobs[s] # w => session_jobs'[s] = session_jobs[s]]_vars

-----------------------------------------------------------------------------
\* Properties of the sessions side by side (Spec)

\* an operation of session a: a facade call on a, or a step of a worker of a
OperationOn(a) ==
    \/ \E f \in DataFiles : Start(a, f)
    \/ Poll(a) \/ Cancel(a) \/ Cleanup(a)
    \/ \E w \in RunsOf(a) : WorkerStep(w)

\* what the orchestrator holds for session b
Unchanged(b) ==
    /\ session_jobs'[b] = session_jobs[b]
    /\ session_queues'[b] = session_queues[b]
    /\ session_results'[b] = session_results[b]
    /\ session_thread_counters'[b] = session_thread_counters[b]
    /\ session_queues[b] # NoQueue
         => queues'[session_queues[b]] = queues[session_queues[b]]

\* every message waiting in the queue of s and the result stored for s
Visible(s) ==
    {session_results[s]} \cup
    (IF session_queues[s] = NoQueue THEN {}
     ELSE {queues[session_queues[s]][i] : i \in DOMAIN queues[session_queues[s]]})

\* C9: an operation of one session leaves the job, the queue, the stored
\* result and the counter of every other session as they were; what a poll of
\* a session can return was produced by a run of that session; the output
\* directories of runs of different sessions differ.
C9_SessionsAreSeparate ==
    /\ [][\A a, b \in Sessions :
            a # b => (Unchanged(b) \/ ~OperationOn(a))]_vars
    /\ [](\A s \in Sessions :
            /\ get_job_status(s) \in Visible(s) \cup {Plain("idle"), Plain("running")}
            /\ \A m \in Visible(s) : m.run # 0 => threads[m.run].sid = s)
    /\ [](\A v, w \in DOMAIN threads :
            (threads[v].sid # threads[w].sid /\ threads[v].dir # NoDir)
            => threads[v].dir # threads[w].dir)

\* both sessions have a live run with messages waiting, given the same
\* timestamp for their output directories
C9_Witness ==
    /\ LiveRuns("s1") # {} /\ LiveRuns("s2") # {}
    /\ queues[session_queues["s1"]] # <<>>
    /\ queues[session_queues["s2"]] # <<>>
    /\ \E v \in RunsOf("s1"), w \in RunsOf("s2") :
         /\ threads[v].dir # NoDir /\ threads[w].dir # NoDir
         /\ threads[v].dir[3] = threads[w].dir[3]

\* C10: the context an execute call of a run goes to was created by a run of
\* the same session: no context is used by runs of two sessions.
C10_ContextOfOneSession ==
    [][\A w \in DOMAIN threads :
         W_Exec(w) => threads[sandbox'.id].sid = threads[w].sid]_vars

-----------------------------------------------------------------------------
\* Properties of one run followed call by call (SpecRun)

\* C11: the interpreter context created by an execute call of a run is
\* destroyed by the time the run ends, whether it ended with a result or
\* with an error: no ended run has left its context behind.
C11_ContextEndsWithRun ==
    \A w \in DOMAIN threads : threads[w].pc = "dead" => sandbox.id # w

\* the run w has begun: its record holds what it has sent and called
Traced(w) == w \in DOMAIN threads /\ threads[w].pc # "start"

Terminal(m) == m.status \in {"error", "completed"}

IsSuffix(a, b) ==
    Len(a) <= Len(b) /\ a = SubSeq(b, Len(b) - Len(a) + 1, Len(b))

IsPrefix(a, b) == Len(a) <= Len(b) /\ a = SubSeq(b, 1, Len(a))

\* C12: what a run has put on its queue is progress statuses followed by
\* terminal statuses of one kind, a single error or the completed status
\* repeated, with nothing else after the first terminal status; the queue
\* always holds the messages of the run not yet polled, in the order they
\* were put, and a poll removes and returns the oldest of them.
C12_ProgressThenOneTerminal ==
    /\ [](\A w \in DOMAIN threads :
            Traced(w) =>
              LET sent == threads[w].sent IN
              /\ \A i, j \in DOMAIN sent :
                   (i < j /\ Terminal(sent[i])) => sent[j] = sent[i]
              /\ Cardinality({i \in DOMAIN sent : sent[i].status = "error"}) <= 1
              /\ IsSuffix(queues[threads[w].q], sent))
    /\ [][\A w \in DOMAIN threads :
            (Traced(w) /\ ~IsPrefix(queues[threads[w].q], queues'[threads[w].q]))
            => /\ queues[threads[w].q] # <<>>
               /\ queues'[threads[w].q] = Tail(queues[threads[w].q])
               /\ last' = Returned("poll", threads[w].sid,
                                   Head(queues[threads[w].q]))]_vars

\* a poll returned the first completed status of an ended run that had sent
\* several progress statuses; the two repeats are still waiting
C12_Witness ==
    /\ Traced(1) /\ threads[1].pc = "dead"
    /\ Len(threads[1].sent) >= 6
    /\ last = Returned("poll", "s1", FinalResult(1))
    /\ Len(queues[threads[1].q]) = 2

\* C15: once a call of a run has raised, the last status the run has put is
\* an error status that carries the text of the exception, every status
\* before it is a progress status, and the run is in or past its finally
\* clause; the step in which the call raises returns nothing to a caller of
\* the facade.
C15_FailureBecomesErrorStatus ==
    /\ [](\A w \in DOMAIN threads :
            (Traced(w) /\ threads[w].raised # "-")
            => LET sent == threads[w].sent IN
               /\ sent # <<>>
               /\ sent[Len(sent)] = Failure(w, threads[w].raised)
               /\ \A i \in 1..(Len(sent) - 1) : sent[i].status = "progress"
               /\ threads[w].pc \in {"finally", "dead"})
    /\ [][\A w \in DOMAIN threads :
            (Traced(w) /\ threads[w].raised = "-" /\ threads'[w].raised # "-")
            => /\ last' = NoReturn /\ call' = call
               /\ queues'[threads[w].q] =
                    Append(queues[threads[w].q],
                           Failure(w, threads'[w].raised))]_vars

\* the sandbox raised a timeout in the execute call of the second task, and
\* a poll has returned the error status with that text
C15_Witness ==
    /\ Traced(1) /\ threads[1].raised = "TimeoutError"
    /\ threads[1].at = "exec_call" /\ threads[1].idx = 2
    /\ last = Returned("poll", "s1", Failure(1, "TimeoutError"))

\* C16: a run given a file that is missing or fails the validation puts one
\* status only, an error status, stores it as the result of its session,
\* and calls neither the plan generator, the code generator nor the sandbox
\* at any time.
C16_BadFileEndsAtOnce ==
    \A w \in DOMAIN threads :
       (Traced(w) /\ threads[w].file = "bad")
       => /\ threads[w].calls = <<>>
          /\ sandbox.id # w
          /\ IF threads[w].pc \in {"finally", "dead"}
             THEN /\ threads[w].sent = <<ErrorResult(w)>>
                  /\ session_results[threads[w].sid] = ErrorResult(w)
             ELSE threads[w].sent = <<>>

\* the run of a missing file has ended, its queue is drained and a poll has
\* returned the error status
C16_Witness ==
    /\ Traced(1) /\ threads[1].file = "bad" /\ threads[1].pc = "dead"
    /\ queues[threads[1].q] = <<>>
    /\ \A c \in Callers : call[c].pc = "idle"
    /\ last = Returned("poll", "s1", ErrorResult(1))
    /\ session_results["s1"] = ErrorResult(1)

\* the calls of the plan generator, the code generator and the sandbox
PipelineCalls(w) ==
    SelectSeq(threads[w].calls,
              LAMBDA c : c.fn \in {"plan", "code", "exec"})

\* plan, then for each task in plan order its code generation and the
\* execution of that code
InPlanOrder(w, n) ==
    /\ Len(PipelineCalls(w)) = 2 * n + 1
    /\ PipelineCalls(w)[1] = UseCaseCall("plan", 0, 0)
    /\ \A k \in 1..n :
         /\ PipelineCalls(w)[2 * k] = UseCaseCall("code", k, 0)
         /\ PipelineCalls(w)[2 * k + 1] = UseCaseCall("exec", k, k)

\* C17: a DataThread that carries an error does not end the run: the step
\* that receives it goes on to the next task, or after the last task to the
\* report; and a run none of whose calls raised has generated and executed
\* the code of every task, in plan order, and ends with the completed
\* status, whatever errors its DataThreads carry.
C17_TaskErrorDoesNotAbort ==
    /\ [][\A w \in DOMAIN threads :
            (Traced(w) /\ Len(threads'[w].execs) > Len(threads[w].execs))
            => threads'[w].pc = IF threads[w].idx < threads[w].n
                                THEN "code_call" ELSE "report_call"]_vars
    /\ [](\A w \in DOMAIN threads :
            (/\ Traced(w) /\ threads[w].pc \in {"finally", "dead"}
             /\ threads[w].raised = "-" /\ threads[w].file # "bad")
            => /\ InPlanOrder(w, threads[w].n)
               /\ \A k \in 1..threads[w].n : threads[w].execs[k].task = k
               /\ threads[w].sent[Len(threads[w].sent)] = FinalResult(w))

\* the first of three tasks gave a DataThread with an error, the third one
\* without, and the run has ended with the completed status
C17_Witness ==
    /\ Traced(1) /\ threads[1].pc = "dead" /\ threads[1].n = 3
    /\ Len(threads[1].execs) = 3
    /\ threads[1].execs[1].error /\ ~threads[1].execs[3].error
    /\ session_results["s1"] = FinalResult(1)

\* C18: when the sandbox raises a timeout while the second of three tasks is
\* executed, the run still executes all three tasks, the DataThread of the
\* second one carries the error, and the run ends with the completed status.
C18_TimeoutIsATaskError ==
    \A w \in DOMAIN threads :
       (/\ Traced(w) /\ threads[w].n = 3
        /\ threads[w].raised = "TimeoutError"
        /\ threads[w].at = "exec_call" /\ threads[w].idx = 2
        /\ threads[w].pc = "dead")
       => /\ Len(threads[w].execs) = 3
          /\ threads[w].execs[2].error
          /\ threads[w].sent[Len(threads[w].sent)] = FinalResult(w)

\* the sandbox calls of the run w
ExecCalls(w) == SelectSeq(threads[w].calls, LAMBDA c : c.fn = "exec")

\* C19: every execute call of a run is given the code generated for its own
\* task; and once the code generation of task k has raised, no execute call
\* has been made or is made for task k or a later task, and the last status
\* the run has put is an error status.
C19_NoExecutionAfterFailedCodeGen ==
    \A w \in DOMAIN threads :
       Traced(w)
       => /\ \A i \in DOMAIN ExecCalls(w) :
               ExecCalls(w)[i].code = ExecCalls(w)[i].task
          /\ (threads[w].at = "code_call")
             => /\ \A i \in DOMAIN ExecCalls(w) :
                     ExecCalls(w)[i].task < threads[w].idx
                /\ Len(threads[w].execs) = threads[w].idx - 1
                /\ threads[w].sent[Len(threads[w].sent)].status = "error"
                /\ threads[w].pc \in {"finally", "dead"}

\* the code generation of the second task raised after the first task was
\* executed, and the run has ended
C19_Witness ==
    /\ Traced(1) /\ threads[1].pc = "dead"
    /\ threads[1].at = "code_call" /\ threads[1].idx = 2
    /\ Len(ExecCalls(1)) = 1
    /\ session_results["s1"] = Failure(1, "LLMError")

\* the plan generator has returned to the run w
PlanReturned(w) ==
    Traced(w) /\ threads[w].calls # <<>> /\ threads[w].at # "plan_call"

\* C20: a run never goes on with an empty task list; when the plan has no
\* task the list is the single task whose hypothesis is the request of the
\* user, and such a run, if none of its calls raises, ends with the
\* completed status and one DataThread in its executions.
C20_EmptyPlanBecomesOneTask ==
    \A w \in DOMAIN threads :
       PlanReturned(w)
       => /\ threads[w].tasks # <<>>
          /\ threads[w].n = Len(threads[w].tasks)
          /\ threads[w].planned = 0
             => /\ threads[w].tasks = <<FallbackTask>>
                /\ Len(threads[w].execs) <= 1
                /\ (threads[w].raised = "-" /\ threads[w].pc \in {"finally", "dead"})
                   => /\ Len(threads[w].execs) = 1
                      /\ threads[w].sent[Len(threads[w].sent)] = FinalResult(w)

\* the plan was empty and the run, given no file, has ended with the
\* completed status of three steps in all
C20_Witness ==
    /\ PlanReturned(1) /\ threads[1].planned = 0 /\ threads[1].pc = "dead"
    /\ threads[1].file = "none"
    /\ Len(threads[1].execs) = 1
    /\ session_results["s1"] = FinalResult(1)
    /\ session_results["s1"].total = 3

-----------------------------------------------------------------------------
\* Progress of one run whose calls all return or raise (SpecRunFair)

\* the run w has put a terminal status on its queue
HasTerminal(w) ==
    Traced(w) /\ \E i \in DOMAIN threads[w].sent : Terminal(threads[w].sent[i])

-----------------------------------------------------------------------------
\* Progress of the workers of a session used by one UI loop (SpecStepsFair)

\* the job-alive marker of s: a job is registered and its thread is alive
JobAlive(s) == session_jobs[s] # NoJob /\ is_alive(session_jobs[s])

\* C14: every worker eventually ends, whichever way its run goes; a
\* session whose job is alive eventually has no alive job; and a start whose
\* alive test is made when no worker of the session is alive is accepted.
C14_WorkerEndsAndFreesSession ==
    /\ \A w \in 1..MaxRuns :
         (w \in DOMAIN threads) ~> (w \in DOMAIN threads /\ ~is_alive(w))
    /\ \A s \in Sessions : JobAlive(s) ~> ~JobAlive(s)
    /\ [][\A c \in Callers :
            (/\ call[c].op = "start" /\ call[c].pc = "test"
             /\ LiveRuns(call[c].sid) = {}
             /\ call'[c] # call[c])
            => call'[c].pc = "queue"]_vars

\* the first worker of s1 has ended, its thread is still the registered job,
\* and a later start of s1 passed the alive test
C14_Witness ==
    /\ 1 \in DOMAIN threads /\ ~is_alive(1)
    /\ session_jobs["s1"] = 1
    /\ \E c \in Callers : call[c].op = "start" /\ call[c].pc = "queue"

-----------------------------------------------------------------------------
\* Properties of the report of a run (SpecRun)

\* the loop over the tasks of the run w has ended
TasksDone(w) ==
    Traced(w) /\ threads[w].tasks # <<>>
    /\ Len(threads[w].execs) = Len(threads[w].tasks)

Called(w, fn) == \E i \in DOMAIN threads[w].calls : threads[w].calls[i].fn = fn

\* C21: the built-in analysis is run exactly when the run was given a data
\* file and the DataThread of every task carries an error; in every other
\* case the report of a completed run comes from the report generator.
C21_BuiltinOnlyWhenAllTasksFailed ==
    \A w \in DOMAIN threads :
       TasksDone(w)
       => LET allFailed == \A k \in DOMAIN threads[w].execs :
                              threads[w].execs[k].error IN
          /\ Called(w, "builtin") <=> (threads[w].file # "none" /\ allFailed)
          /\ (threads[w].pc = "dead" /\ threads[w].raised = "-"
              /\ ~(threads[w].file # "none" /\ allFailed))
             => Called(w, "report")

\* the run w has put the completed status
Completed(w) ==
    Traced(w) /\ threads[w].sent # <<>>
    /\ threads[w].sent[Len(threads[w].sent)].status = "completed"

\* C22: in every run that has put the completed status the review generator
\* was called after the execute call of the last task and before the report
\* was produced.
C22_ReviewBeforeReport ==
    \A w \in DOMAIN threads :
       Completed(w)
       => \E i, j, k \in DOMAIN threads[w].calls :
            /\ i < j /\ j < k
            /\ threads[w].calls[i] =
                 UseCaseCall("exec", threads[w].n, threads[w].n)
            /\ threads[w].calls[j].fn = "review"
            /\ threads[w].calls[k].fn \in {"report", "render"}

-----------------------------------------------------------------------------
\* Properties of cancel and cleanup called by one UI loop (SpecSteps)

\* C23: a cancel of a session returns the refusal, success false with its
\* reason, exactly when a worker of the session is alive, and success true
\* otherwise; either way the threads, the queues and the job, queue, result
\* and counter entries are as they were.
C23_CancelOnlyReports ==
    [][\A s \in Sessions :
         (last'.op = "cancel" /\ last'.sid = s)
         => /\ last'.val = IF LiveRuns(s) # {} THEN Plain("cancel_refused")
                           ELSE Plain("nothing_to_cancel")
            /\ UNCHANGED <<orch, queues, threads, sandbox>>]_vars

\* a cancel was refused while the worker of s1 is alive with messages
\* waiting in the queue
C23_Witness ==
    /\ last = Returned("cancel", "s1", Plain("cancel_refused"))
    /\ LiveRuns("s1") # {}
    /\ queues[session_queues["s1"]] # <<>>
    /\ session_results["s1"] = None

\* nothing is held for the session s
Cleaned(s) ==
    /\ session_jobs[s] = NoJob /\ session_queues[s] = NoQueue
    /\ session_results[s] = Absent /\ session_thread_counters[s] = NoCounter

\* C24: a cleanup of a session none of whose workers is alive does not wait
\* for a thread, returns normally and leaves nothing held for the session;
\* made on a session for which nothing is held, as a second cleanup is, it
\* leaves the state of the orchestrator as it was.
C24_CleanupTwice ==
    [][\A c \in Callers, s \in Sessions :
         (/\ call[c].op = "cleanup" /\ call[c].sid = s
          /\ call'[c] # call[c]
          /\ LiveRuns(s) = {})
         => /\ call[c].pc = "check" => call'[c].pc = "delete"
            /\ call[c].pc = "delete"
               => /\ last' = Returned("cleanup", s, Plain("removed"))
                  /\ Cleaned(s)'
                  /\ UNCHANGED <<threads, sandbox>>
                  /\ Cleaned(s) => UNCHANGED <<orch, queues>>]_vars

\* the run of s1 has ended, a first cleanup has removed what was held for
\* s1, and a second cleanup has reached its del statements
C24_Witness ==
    /\ RunsOf("s1") # {} /\ LiveRuns("s1") = {}
    /\ Cleaned("s1")
    /\ \E c \in Callers : call[c].op = "cleanup" /\ call[c].pc = "delete"

-----------------------------------------------------------------------------
\* Properties of the execution adapter (SpecAdapter)

\* the entries of a results list that are an image or a text
Classifiable(e) ==
    \/ e.form = "dict" /\ e.type \in {"png", "raw"}
    \/ e.form \in {"png_object", "text_object"}

\* C25: for every raw result, whatever its results list holds, the adapter
\* returns a DataThread and raises nothing, and the DataThread has one
\* result for each entry of the list that is an image or a text.
C25_AdapterIsTotal ==
    last.op = "convert"
    => /\ last.val.raised = "-"
       /\ Len(last.val.thread.results) =
            Len(SelectSeq(call.arg.results, Classifiable))

-----------------------------------------------------------------------------
\* Properties of path validation and of file cleanup (SpecFiles)

InsideAllowed(file_path) ==
    \E allowed_folder \in ALLOWED_DATA_FOLDERS :
       is_relative_to(resolve(file_path), resolve(allowed_folder))

ValidationOps == {"validate_file_path", "revalidate"}

\* C26: path validation accepts a path only if the path is not a symbolic
\* link, exists, and resolves inside an allow-listed folder
C26_AcceptsOnlyPlainFilesInside ==
    (last.op \in ValidationOps /\ last.val.accepted) =>
        /\ ~is_symlink(last.val.path)
        /\ exists(fs, resolve(last.val.path))
        /\ InsideAllowed(last.val.path)

Changed(p) == p \in DOMAIN fs /\ (p \notin DOMAIN fs' \/ fs'[p] # fs[p])

\* C27: whatever is called, a file is deleted only if it is registered
\* with track_temp_file for the session being cleaned, and a dataset that
\* is selected for a run and is not tracked stays, with its content
C27_OnlyTrackedFilesDeleted ==
    [][/\ \A p \in Files :
             Changed(p) =>
                 \E s \in DOMAIN _temp_files_by_session :
                    /\ p \in _temp_files_by_session[s]
                    /\ last'.sid = s \/ last'.op = "cleanup_all_temp_files"
       /\ \A s \in Sessions :
             (/\ selected[s].path # <<>>
              /\ ~is_tracked_file(_temp_files_by_session, selected[s].path))
                 => ~Changed(resolve(selected[s].path))]_vars

\* the teardown after a run of s1 has removed its upload while s2 has the
\* dataset selected: the dataset is there, as it was
C27_Witness ==
    /\ last.op = "_cleanup_upload_if_needed" /\ last.sid = "s1"
    /\ Upload \notin DOMAIN fs
    /\ _temp_files_by_session = <<>>
    /\ selected["s2"].path = <<"data", "sales.csv">>
    /\ Dataset \in DOMAIN fs /\ fs[Dataset] = "original"

-----------------------------------------------------------------------------
\* Properties of the polls that follow the terminal status of a run (SpecRun)

\* a poll of s1 returns in this step, and it was called after run w had put
\* its terminal status: either it is called in this step, or it found the
\* queue empty and the queue still is
LaterPoll(w) ==
    /\ HasTerminal(w)
    /\ last'.op = "poll" /\ last'.sid = "s1"
    /\ NoCall \/ queues[threads[w].q] = <<>>

\* C28: once a run has put its terminal status on the queue, every poll of
\* the session called afterwards returns that terminal status, not running,
\* progress or idle, also while the worker is in its grace delay and when
\* the queue has been drained (no second start is accepted in these runs)
C28_TerminalStatusSticks ==
    [][\A w \in DOMAIN threads :
          LaterPoll(w) =>
              /\ Terminal(last'.val)
              /\ last'.val = threads[w].sent[Len(threads[w].sent)]]_vars

-----------------------------------------------------------------------------
\* Properties of the polls that follow a completed run (SpecSteps)

\* run w of s1 has completed and its worker has ended; no start has been
\* accepted and no teardown has happened since
EndedCompleted(w) ==
    /\ w = LatestRun("s1") /\ threads[w].pc = "dead"
    /\ session_results["s1"].status = "completed"
    /\ session_results["s1"].run = w
    /\ session_queues["s1"] # NoQueue

Waiting(s) == queues[session_queues[s]]

\* whenever a step puts a completed status, it puts the same record more
\* than once and stores that record as the result of the run's session
SameRecordPutAndStored ==
    \A q \in DOMAIN queues :
       (/\ Len(queues'[q]) > Len(queues[q])
        /\ queues'[q][Len(queues'[q])].status = "completed") =>
           /\ Len(queues'[q]) - Len(queues[q]) > 1
           /\ queues'[q] =
                  queues[q] \o Copies(Len(queues'[q]) - Len(queues[q]),
                                      queues'[q][Len(queues'[q])])
           /\ \E w \in DOMAIN threads :
                 /\ threads[w].q = q
                 /\ session_results'[threads[w].sid] =
                        queues'[q][Len(queues'[q])]

\* C29 as stated: a successful run puts the same completed record more than
\* once and stores it, and after the worker has ended every poll of the
\* session returns that record, until the next accepted start or a teardown
C29_EveryPollReturnsCompleted ==
    [][/\ SameRecordPutAndStored
       /\ \A w \in DOMAIN threads :
             (EndedCompleted(w) /\ last'.op = "poll" /\ last'.sid = "s1")
                 => last'.val = session_results["s1"]]_vars

\* C29 amended: ... after the worker has ended every poll of the session
\* returns either a progress status of that run that was still waiting in
\* the queue or that record, and that record once no progress status waits
C29_PollsReturnCompletedAfterProgress ==
    [][/\ SameRecordPutAndStored
       /\ \A w \in DOMAIN threads :
             (EndedCompleted(w) /\ last'.op = "poll" /\ last'.sid = "s1")
                 => \/ last'.val = session_results["s1"]
                    \/ /\ Waiting("s1") # <<>>
                       /\ last'.val = Head(Waiting("s1"))
                       /\ last'.val.status = "progress"
                       /\ last'.val.run = w]_vars

\* the worker of a completed run has ended, the three copies have been
\* polled, and a further poll has returned the stored record
C29_Witness ==
    /\ EndedCompleted(1)
    /\ Waiting("s1") = <<>>
    /\ last = Returned("poll", "s1", session_results["s1"])

-----------------------------------------------------------------------------
\* Properties of the receive loop of the sandbox (SpecKernel)

\* C30: the result of an execute holds only messages caused by its own
\* request, and an idle status ends an execute only if the request of that
\* execute caused it; what an earlier request left in the channel is
\* neither attributed to a later execute nor ends it
C30_OnlyOwnMessages ==
    last.op = "execute" =>
        /\ \A i \in DOMAIN last.val.collected :
              last.val.collected[i].parent = last.val.msg_id
        /\ last.val.ended_by \in {0, last.val.msg_id}

\* C31: a receive timeout does not end the receive loop: an execute that
\* returns without having read an idle status returns because the overall
\* time was used up or the transport failed, never because no message came
\* within one receive timeout
C31_ReceiveTimeoutNotFatal ==
    (last.op = "execute" /\ last.val.ended_by = 0) =>
        last.val.raised \in {"-", "ConnectionError"}

\* something the initialization request caused is still unpublished or unread
InitPending ==
    \/ \E i \in DOMAIN kernel.todo : kernel.todo[i].parent = 1
    \/ \E i \in DOMAIN kernel.iopub : kernel.iopub[i].parent = 1

\* C32: create returns only after the initialization code has finished in
\* the kernel and all it published has been read, and no user code is
\* executed on a kernel whose initialization has not finished or has failed
C32_CreateWaitsForInit ==
    /\ last.op = "create" => ~InitPending
    /\ (kernel.pc = "receiving" /\ ~kernel.creating) =>
           kernel.init = "stream" /\ ~InitPending

\* the DataThread ExecuteCodeUseCase builds from what execute returned
DataThreadOf(val) ==
    _convert_to_data_thread(execution_result(val.collected)).thread

\* C33: when the kernel has published an error message while the code of
\* an execute ran and the execute has read it, the DataThread built from
\* the result has an error, the traceback
C33_ErrorMessageBecomesThreadError ==
    (/\ last.op = "execute"
     /\ \E i \in DOMAIN last.val.collected :
           last.val.collected[i].msg_type = "error")
        => DataThreadOf(last.val).error = "traceback"

-----------------------------------------------------------------------------
\* Properties of the step counts of a run (SpecRun)

Counted(m) == m.status \in {"progress", "completed"}

\* C34: in every progress and completed status a run has put, step is at
\* least 1 and at most total, and from one such status of the run to the
\* next step does not decrease, with and without a data file and for every
\* number of tasks
C34_StepWithinTotalAndMonotonic ==
    \A w \in DOMAIN threads :
       Traced(w) =>
           LET sent == threads[w].sent IN
           /\ \A i \in DOMAIN sent :
                 Counted(sent[i]) =>
                     1 <= sent[i].step /\ sent[i].step <= sent[i].total
           /\ \A i, j \in DOMAIN sent :
                 (i < j /\ Counted(sent[i]) /\ Counted(sent[j]))
                     => sent[i].step <= sent[j].step

-----------------------------------------------------------------------------
\* Properties of the render loop of the chat page (SpecUI)

\* C35: while job_running is set, every pass of main() whose poll returns a
\* status that is not terminal (progress or running) schedules another pass
C35_NonTerminalPollSchedulesRerun ==
    [][\A s \in Sessions :
         (/\ session_state[s].job_running
          /\ session_state[s].rerun
          /\ last'.op = "render" /\ last'.sid = s
          /\ last'.val.status \in {"progress", "running"})
            => session_state'[s].rerun]_vars

-----------------------------------------------------------------------------
\* Properties of the thread counter of a session (Spec)

\* the value a start finds: a session without a counter is given 0 first
CounterValue(counters, s) ==
    IF counters[s] = NoCounter THEN 0 ELSE counters[s]

\* the step is an accepted start of session s
AcceptedStart(s) ==
    /\ Len(threads') = Len(threads) + 1
    /\ threads'[Len(threads')].sid = s

\* C36: in every step of start, poll, cancel, teardown and worker the thread
\* counter of a session does not decrease, and an accepted start makes it
\* exactly one more than it was
C36_CounterNeverDecreases ==
    [][\A s \in Sessions :
         /\ CounterValue(session_thread_counters', s)
              >= CounterValue(session_thread_counters, s)
         /\ AcceptedStart(s) =>
              CounterValue(session_thread_counters', s)
                = CounterValue(session_thread_counters, s) + 1]_vars

-----------------------------------------------------------------------------
\* Properties of persisting the images of a DataThread (SpecArtifacts)

\* C37: when the images of a DataThread have been persisted twice and no
\* write failed, the files and the image paths recorded on the DataThread
\* are those the first persisting left, and no path is recorded twice
C37_SavingTwiceIsIdempotent ==
    (call.op = "save" /\ call.saves = 2 /\ ~call.failed) =>
        /\ fs = call.once.fs
        /\ call.thread.images = call.once.images
        /\ \A i, j \in DOMAIN call.thread.images :
             call.thread.images[i] = call.thread.images[j] => i = j

-----------------------------------------------------------------------------
\* Properties of kill() of the sandbox (SpecKernel)

\* the fields of the repository and its temp directory
Context(k) ==
    <<k._sandbox_id, k._kernel_client, k._kernel_manager, k._temp_dir,
      k.on_disk>>

\* C38: every call of kill() returns without raising and leaves the client,
\* the manager and the sandbox id cleared; a call that follows another call
\* of kill() changes nothing; and every sub-step whose resource is there is
\* run, whichever of the others fail
C38_KillStopsAndIsRepeatable ==
    [][(last'.op = "kill" /\ kernel'.kills = kernel.kills + 1) =>
         /\ last'.val.raised = "-"
         /\ kernel'._sandbox_id = "None"
         /\ kernel'._kernel_client = "None"
         /\ kernel'._kernel_manager = "None"
         /\ last.op = "kill" => Context(kernel') = Context(kernel)
         /\ kernel._kernel_client # "None"
              => "stop_channels" \in last'.val.ran
         /\ kernel._kernel_manager # "None"
              => "shutdown_kernel" \in last'.val.ran
         /\ (kernel._temp_dir # "None" /\ kernel.on_disk)
              => "rmtree" \in last'.val.ran]_vars

-----------------------------------------------------------------------------
\* Properties of the registry after a cleanup (SpecFiles)

\* C39: when cleanup_session_files(S) has returned and none of the files S
\* had tracked is left on disk, S has no entry in the registry, and no path
\* that only S had tracked is a tracked file
C39_NothingTrackedAfterCleanup ==
    [][\A s \in Sessions :
         (/\ last'.op = "cleanup_session_files" /\ last'.sid = s
          /\ s \in DOMAIN _temp_files_by_session
          /\ \A p \in _temp_files_by_session[s] : ~is_file(fs', p))
            => /\ s \notin DOMAIN _temp_files_by_session'
               /\ \A p \in _temp_files_by_session[s] :
                    (\A o \in DOMAIN _temp_files_by_session \ {s} :
                        p \notin _temp_files_by_session[o])
                      => ~is_tracked_file(_temp_files_by_session', p)]_vars

====
